---- MODULE Spec2Model ----
(***************************************************************************)
(* Model of the device access layer of mcp-redfish-go:                     *)
(*   - pkg/redfish/client.go : Client (Login, Logout, Close, request with  *)
(*     the retry-go v3.0.0 loop, doRequest, addAuthHeaders, IsRetryable)   *)
(*   - pkg/common (unnamed/part_001) : HostManager                         *)
(*   - pkg/mcp    (unnamed/part_001) : Server.handleGetResourceData        *)
(*                                                                         *)
(* Methods of the Go types are pure operators on records; the actions      *)
(* apply them to the variables.  A call that blocks (an HTTP exchange, a   *)
(* back-off sleep) is one step of the goroutine that makes it.             *)
(***************************************************************************)
EXTENDS Integers, Sequences, FiniteSets, TLC

VARIABLES
    client,          \* the redfish.Client in use: config, sessionToken, pooled idle connections
    call,            \* the locals of a running Client.request and its retry.Do: n, attempts, lastErr, lastResp, errorLog
    wire,            \* history: the HTTP exchanges of the operation in progress / last finished
    slept,           \* history: the delays slept by the request in progress / last finished
    ret,             \* what the last finished client operation returned
    granted,         \* history: token issued to the last successful Login, "" after Logout/Close
    staticHosts,     \* HostManager.staticHosts
    discoveredHosts, \* HostManager.discoveredHosts
    view,            \* history: what the last read of the HostManager returned, none since the last update
    serverConfig,    \* Server.config.Redfish: the global defaults
    handler,         \* the goroutine running Server.handleGetResourceData
    updated,         \* history: the last UpdateDiscoveredHosts call and the addresses discovered before it
    mu,              \* HostManager.mu: the write holder and the number of read holders
    tasks,           \* the goroutines calling into the HostManager concurrently: position and locals
    disc,            \* the goroutine running SSDPDiscovery.Discover: position, locals, reads so far
    env,             \* the process environment and the config file, as main finds them
    server,          \* main: position, the loaded configuration, the server it built
    conf,            \* a caller of the config package: its input and what Validate and LoadFromEnv returned
    clients,         \* the redfish.Client values of concurrent tool calls, by the variable that holds them
    invocations      \* the goroutines running handleGetResourceData concurrently: position and history

vars == <<client, call, wire, slept, ret, granted,
          staticHosts, discoveredHosts, view, serverConfig, handler,
          updated, mu, tasks, disc, env, server, conf, clients, invocations>>

clientVars == <<client, call, wire, slept, ret, granted>>
registryVars == <<staticHosts, discoveredHosts, view, updated>>
\* the state of the goroutines that are not running in a given specification
otherVars == <<mu, tasks, disc, env, server, conf, clients, invocations>>

-----------------------------------------------------------------------------
(* Bounds of the model *)

\* largest ClientConfig.MaxRetries explored
MaxRetriesBound == 2
\* time.Duration is a signed 64-bit word; the model does the same arithmetic
\* on a signed word of DurationBits bits
DurationBits == 6
\* longest discovered-host list handed to UpdateDiscoveredHosts
MaxDiscovered == 2
\* most reads of one Discover call that return before the deadline
MaxReads == 3

-----------------------------------------------------------------------------
(* Values *)

AuthMethodBasic == "basic"
AuthMethodSession == "session"

StatusOK == 200
StatusCreated == 201

\* absent request header
NoHeader == [present |-> FALSE, value |-> ""]
Header(v) == [present |-> TRUE, value |-> v]

\* Go's nil error, and the two kinds of error the client produces
NoErr == [type |-> "nil", Code |-> 0, Message |-> <<"", 0, "">>]
RedfishError(code, msg) == [type |-> "RedfishError", Code |-> code, Message |-> msg]
PlainError(msg) == [type |-> "error", Code |-> 0, Message |-> msg]

\* decoded response data: nil interface, a decoded JSON value, or the raw string
NilData == [kind |-> "nil", of |-> ""]
JSONData(b) == [kind |-> "json", of |-> b]
StringData(b) == [kind |-> "string", of |-> b]

\* nil *RedfishResponse and a RedfishResponse value
NoResp == [type |-> "nil", StatusCode |-> 0, Headers |-> <<>>, Data |-> NilData]
RedfishResponse(status, headers, data) ==
    [type |-> "RedfishResponse", StatusCode |-> status, Headers |-> headers, Data |-> data]

-----------------------------------------------------------------------------
(* Strings the program takes apart are sequences of one-character strings *)

UpperLetters == <<"A", "B", "C", "D", "E", "F", "G", "H", "I", "J", "K", "L", "M",
                  "N", "O", "P", "Q", "R", "S", "T", "U", "V", "W", "X", "Y", "Z">>
LowerLetters == <<"a", "b", "c", "d", "e", "f", "g", "h", "i", "j", "k", "l", "m",
                  "n", "o", "p", "q", "r", "s", "t", "u", "v", "w", "x", "y", "z">>

IsLetter(c) == \E i \in DOMAIN UpperLetters : c = UpperLetters[i] \/ c = LowerLetters[i]

\* strings.ToLower on one character
ToLower(c) ==
    IF \E i \in DOMAIN UpperLetters : c = UpperLetters[i]
    THEN LowerLetters[CHOOSE i \in DOMAIN UpperLetters : c = UpperLetters[i]]
    ELSE c

ToLowerString(str) == [i \in DOMAIN str |-> ToLower(str[i])]

\* strings.ToUpper on one character
ToUpper(c) ==
    IF \E i \in DOMAIN LowerLetters : c = LowerLetters[i]
    THEN UpperLetters[CHOOSE i \in DOMAIN LowerLetters : c = LowerLetters[i]]
    ELSE c

ToUpperString(str) == [i \in DOMAIN str |-> ToUpper(str[i])]

\* textproto.CanonicalMIMEHeaderKey for a name of letters, digits and hyphens:
\* the first letter and every letter after a hyphen upper case, the rest lower
CanonicalMIMEHeaderKey(name) ==
    [i \in DOMAIN name |->
        IF i = 1 \/ name[i - 1] = "-" THEN ToUpper(name[i]) ELSE ToLower(name[i])]

\* the values of the header lines whose name canonicalizes to key, in order
RECURSIVE HeaderValues(_, _)
HeaderValues(lines, key) ==
    IF lines = <<>> THEN <<>>
    ELSE (IF CanonicalMIMEHeaderKey(lines[1][1]) = key THEN <<lines[1][2]>> ELSE <<>>)
         \o HeaderValues(Tail(lines), key)

\* http.Response.Header as net/http builds it from the header lines of the
\* response: a map from canonical names to the values received under them
ResponseHeader(lines) ==
    [key \in {CanonicalMIMEHeaderKey(lines[i][1]) : i \in DOMAIN lines} |->
        HeaderValues(lines, key)]

-----------------------------------------------------------------------------
(* What the network can answer *)

\* response bodies of a resource request: empty, a JSON document, text that is not JSON
BodyEmpty == ""
BodyJSON == "{\"Id\":\"1\"}"
BodyText == "not json"
Bodies == {BodyEmpty, BodyJSON, BodyText}

\* json.Unmarshal(respBody, &data) succeeds
IsValidJSON(b) == b = BodyJSON

\* the header lines of a response, name and value, as the server writes them
HeaderSets ==
    {<<>>,
     << <<<<"e", "t", "a", "g">>, "W/1">>, <<<<"x", "-", "c", "u", "s", "t", "o", "m">>, "v">> >>,
     << <<<<"A", "l", "l", "o", "w">>, "GET">>, <<<<"a", "l", "l", "o", "w">>, "HEAD">>,
        <<<<"L", "I", "N", "K">>, "</s>">> >>}

\* the answers to a resource request: no answer (transport error), an answer
\* whose body cannot be read, and answers with a status line
Replies ==
    {[kind |-> "neterr", status |-> 0, body |-> BodyEmpty, headers |-> <<>>],
     [kind |-> "readerr", status |-> 200, body |-> BodyEmpty, headers |-> <<>>]}
    \cup [kind : {"http"}, status : {200}, body : Bodies, headers : HeaderSets]
    \cup [kind : {"http"}, status : {400, 404, 499}, body : {BodyText}, headers : {<<>>}]
    \cup [kind : {"http"}, status : {500}, body : {BodyEmpty, BodyText}, headers : {<<>>}]

\* bodies of a session-creation response
LoginBodies == {"empty", "text", "array", "object", "token_number", "token_empty", "token_B"}

\* json.NewDecoder(resp.Body).Decode(&sessionResp) into a map[string]interface{}
DecodesAsObject(b) == b \in {"object", "token_number", "token_empty", "token_B"}

\* sessionResp["token"].(string): ok and value
BodyTokenIsString(b) == b \in {"token_empty", "token_B"}
BodyToken(b) == IF b = "token_B" THEN "tokB" ELSE ""

LoginStatuses == {200, 201, 204, 401, 500}
HeaderTokens == {"", "tokH"}

LoginReplies ==
    {[kind |-> "neterr", status |-> 0, body |-> "empty", xAuthToken |-> ""]}
    \cup [kind : {"http"}, status : LoginStatuses, body : LoginBodies, xAuthToken : HeaderTokens]

-----------------------------------------------------------------------------
(* ClientConfig and Client *)

\* DefaultClientConfig; durations in seconds, Address and credentials are Go zero values
\* (strings that the program parses character by character are sequences of characters)
DefaultClientConfig ==
    [Address |-> <<>>, Port |-> 443, Username |-> "", Password |-> "",
     AuthMethod |-> AuthMethodSession, TLSServerCACert |-> "",
     InsecureSkipVerify |-> FALSE,
     MaxRetries |-> 3, InitialDelay |-> 1, MaxDelay |-> 60,
     BackoffFactor |-> 2, Jitter |-> TRUE]

NewClient(config) == [config |-> config, sessionToken |-> "", idleConns |-> FALSE]

\* addAuthHeaders: the authentication headers put on a request
addAuthHeaders(c) ==
    [BasicAuth |->
        IF c.config.AuthMethod = AuthMethodBasic
           /\ c.config.Username # "" /\ c.config.Password # ""
        THEN Header(<<c.config.Username, c.config.Password>>)
        ELSE [present |-> FALSE, value |-> <<"", "">>],
     XAuthToken |->
        IF c.config.AuthMethod = AuthMethodSession /\ c.sessionToken # ""
        THEN Header(c.sessionToken)
        ELSE NoHeader]

\* loginBasic: no network call
loginBasic(c) == [client |-> c, err |-> NoErr, exchanged |-> FALSE]

loginSession_TokenBeforeStatus(c, r) ==
    IF r.kind = "neterr"
    THEN [client |-> c, err |-> PlainError(<<"login request failed", 0, "">>), exchanged |-> TRUE]
    ELSE LET pooled == [c EXCEPT !.idleConns = TRUE, !.sessionToken = r.xAuthToken] IN
      IF r.status # StatusCreated /\ r.status # StatusOK
      THEN [client |-> pooled,
            err |-> RedfishError(r.status, <<"login failed with status", r.status, r.body>>),
            exchanged |-> TRUE]
      ELSE IF ~DecodesAsObject(r.body)
      THEN [client |-> pooled,
            err |-> PlainError(<<"failed to decode session response", 0, "">>),
            exchanged |-> TRUE]
      ELSE IF r.xAuthToken # ""
      THEN [client |-> pooled, err |-> NoErr, exchanged |-> TRUE]
      ELSE IF BodyTokenIsString(r.body)
      THEN [client |-> [pooled EXCEPT !.sessionToken = BodyToken(r.body)],
            err |-> NoErr, exchanged |-> TRUE]
      ELSE [client |-> pooled,
            err |-> PlainError(<<"no session token found in response", 0, "">>),
            exchanged |-> TRUE]

\* loginSession: one POST to /redfish/v1/SessionService/Sessions, answered by r
loginSession(c, r) ==
    IF r.kind = "neterr"
    THEN [client |-> c, err |-> PlainError(<<"login request failed", 0, "">>), exchanged |-> TRUE]
    ELSE LET pooled == [c EXCEPT !.idleConns = TRUE] IN
      IF r.status # StatusCreated /\ r.status # StatusOK
      THEN [client |-> pooled,
            err |-> RedfishError(r.status, <<"login failed with status", r.status, r.body>>),
            exchanged |-> TRUE]
      ELSE IF ~DecodesAsObject(r.body)
      THEN [client |-> pooled,
            err |-> PlainError(<<"failed to decode session response", 0, "">>),
            exchanged |-> TRUE]
      ELSE IF r.xAuthToken # ""
      THEN [client |-> [pooled EXCEPT !.sessionToken = r.xAuthToken],
            err |-> NoErr, exchanged |-> TRUE]
      ELSE IF BodyTokenIsString(r.body)
      THEN [client |-> [pooled EXCEPT !.sessionToken = BodyToken(r.body)],
            err |-> NoErr, exchanged |-> TRUE]
      ELSE [client |-> pooled,
            err |-> PlainError(<<"no session token found in response", 0, "">>),
            exchanged |-> TRUE]

\* Login: dispatch on the configured auth method
Login(c, r) ==
    CASE c.config.AuthMethod = AuthMethodBasic -> loginBasic(c)
      [] c.config.AuthMethod = AuthMethodSession -> loginSession(c, r)
      [] OTHER -> [client |-> c, err |-> PlainError(<<"unsupported auth method", 0, "">>),
                   exchanged |-> FALSE]

Logout_KeepsToken(c) == [client |-> c, err |-> NoErr]

\* Logout: drop the in-memory token
Logout(c) ==
    IF c.sessionToken = ""
    THEN [client |-> c, err |-> NoErr]
    ELSE [client |-> [c EXCEPT !.sessionToken = ""], err |-> NoErr]

Close_NoLogout(c) == [client |-> [c EXCEPT !.idleConns = FALSE], err |-> NoErr]

\* Close: Logout, then httpClient.CloseIdleConnections()
Close(c) ==
    [client |-> [Logout(c).client EXCEPT !.idleConns = FALSE], err |-> NoErr]

doRequest_Above400(c, r) ==
    IF r.kind = "neterr"
    THEN [client |-> c, resp |-> NoResp,
          err |-> RedfishError(0, <<"HTTP request failed", 0, "">>)]
    ELSE IF r.kind = "readerr"
    THEN [client |-> c, resp |-> NoResp,
          err |-> PlainError(<<"failed to read response body", 0, "">>)]
    ELSE LET data == IF r.body # BodyEmpty
                     THEN (IF IsValidJSON(r.body) THEN JSONData(r.body) ELSE StringData(r.body))
                     ELSE NilData
             pooled == [c EXCEPT !.idleConns = TRUE]
         IN IF r.status > 400
            THEN [client |-> pooled, resp |-> NoResp,
                  err |-> RedfishError(r.status, <<"HTTP", r.status, r.body>>)]
            ELSE [client |-> pooled,
                  resp |-> RedfishResponse(r.status, ResponseHeader(r.headers), data),
                  err |-> NoErr]

doRequest_DecodeErrorFails(c, r) ==
    IF r.kind = "neterr"
    THEN [client |-> c, resp |-> NoResp,
          err |-> RedfishError(0, <<"HTTP request failed", 0, "">>)]
    ELSE IF r.kind = "readerr"
    THEN [client |-> c, resp |-> NoResp,
          err |-> PlainError(<<"failed to read response body", 0, "">>)]
    ELSE LET pooled == [c EXCEPT !.idleConns = TRUE]
         IN IF r.body # BodyEmpty /\ ~IsValidJSON(r.body)
            THEN [client |-> pooled, resp |-> NoResp,
                  err |-> PlainError(<<"failed to parse JSON response", 0, "">>)]
            ELSE IF r.status >= 400
            THEN [client |-> pooled, resp |-> NoResp,
                  err |-> RedfishError(r.status, <<"HTTP", r.status, r.body>>)]
            ELSE [client |-> pooled,
                  resp |-> RedfishResponse(r.status, ResponseHeader(r.headers),
                              IF r.body # BodyEmpty THEN JSONData(r.body) ELSE NilData),
                  err |-> NoErr]

\* doRequest: one HTTP attempt answered by r
doRequest(c, r) ==
    IF r.kind = "neterr"
    THEN [client |-> c, resp |-> NoResp,
          err |-> RedfishError(0, <<"HTTP request failed", 0, "">>)]
    ELSE IF r.kind = "readerr"
    THEN [client |-> c, resp |-> NoResp,
          err |-> PlainError(<<"failed to read response body", 0, "">>)]
    ELSE LET data == IF r.body # BodyEmpty
                     THEN (IF IsValidJSON(r.body) THEN JSONData(r.body) ELSE StringData(r.body))
                     ELSE NilData
             pooled == [c EXCEPT !.idleConns = TRUE]
         IN IF r.status >= 400
            THEN [client |-> pooled, resp |-> NoResp,
                  err |-> RedfishError(r.status, <<"HTTP", r.status, r.body>>)]
            ELSE [client |-> pooled,
                  resp |-> RedfishResponse(r.status, ResponseHeader(r.headers), data),
                  err |-> NoErr]

IsRetryable_Above400(err) ==
    ~(err.type = "RedfishError" /\ err.Code > 400 /\ err.Code < 500)

\* IsRetryable: everything but a RedfishError with a 4xx code
IsRetryable(err) ==
    ~(err.type = "RedfishError" /\ err.Code >= 400 /\ err.Code < 500)

-----------------------------------------------------------------------------
(* The retry loop: retry.Do of github.com/avast/retry-go v3.0.0, configured *)
(* by Client.request with Attempts, Delay, MaxDelay, DelayType(BackOffDelay) *)
(* and RetryIf(IsRetryable)                                                  *)

RECURSIVE Pow2(_)
Pow2(k) == IF k <= 0 THEN 1 ELSE 2 * Pow2(k - 1)

RECURSIVE Log2Floor(_)
Log2Floor(d) == IF d <= 1 THEN 0 ELSE 1 + Log2Floor(d \div 2)

\* two's-complement wrap of a time.Duration
WrapDuration(x) ==
    ((x + Pow2(DurationBits - 1)) % Pow2(DurationBits)) - Pow2(DurationBits - 1)

RetryAttempts_NoFirstTry(config) == config.MaxRetries

\* retry.Attempts(uint(c.config.MaxRetries + 1)); a negative sum wraps to a
\* huge uint, which StartRequest treats apart
RetryAttempts(config) == config.MaxRetries + 1

\* retry.BackOffDelay: delay << n, with n clamped so that the shift cannot
\* overflow (the library's limit is bit 62 of 64, here bit DurationBits - 2)
BackOffDelay(n, delay) ==
    LET d == IF delay <= 0 THEN 1 ELSE delay
        maxBackOffN == (DurationBits - 2) - Log2Floor(d)
        k == IF n > maxBackOffN THEN maxBackOffN ELSE n
    IN WrapDuration(d * Pow2(k))

DelayTime_NoCap(n, config) == BackOffDelay(n, config.InitialDelay)

RECURSIVE Pow(_, _)
Pow(b, k) == IF k <= 0 THEN 1 ELSE b * Pow(b, k - 1)

DelayTime_UsesBackoffFactor(n, config) ==
    LET d == IF config.InitialDelay <= 0 THEN 1 ELSE config.InitialDelay
        t == WrapDuration(d * Pow(config.BackoffFactor, n))
    IN IF config.MaxDelay > 0 /\ t > config.MaxDelay THEN config.MaxDelay ELSE t

\* the delay retry.Do sleeps after failed attempt n (0-based): the delay type,
\* cut to maxDelay when a positive maxDelay was given
DelayTime(n, config) ==
    LET t == BackOffDelay(n, config.InitialDelay)
    IN IF config.MaxDelay > 0 /\ t > config.MaxDelay THEN config.MaxDelay ELSE t

NoCall ==
    [active |-> FALSE, op |-> "", n |-> 0, attempts |-> 0,
     lastErr |-> NoErr, lastResp |-> NoResp, errorLog |-> <<>>]

requestReturn_FirstError(c, doFailed) ==
    IF doFailed
    THEN [resp |-> NoResp,
          err |-> IF c.errorLog = <<>> THEN c.lastErr ELSE c.errorLog[1]]
    ELSE [resp |-> c.lastResp, err |-> NoErr]

\* what Client.request returns once retry.Do has returned (doFailed: err != nil)
requestReturn(c, doFailed) ==
    IF doFailed
    THEN [resp |-> NoResp, err |-> c.lastErr]
    ELSE [resp |-> c.lastResp, err |-> NoErr]

\* GetWithHeaders' allow-list: lookup key and output name
targetHeaders ==
    {<<<<"a", "l", "l", "o", "w">>, <<"A", "l", "l", "o", "w">>>>,
     <<<<"c", "o", "n", "t", "e", "n", "t", "-", "t", "y", "p", "e">>,
       <<"C", "o", "n", "t", "e", "n", "t", "-", "T", "y", "p", "e">>>>,
     <<<<"c", "o", "n", "t", "e", "n", "t", "-", "e", "n", "c", "o", "d", "i", "n", "g">>,
       <<"C", "o", "n", "t", "e", "n", "t", "-", "E", "n", "c", "o", "d", "i", "n", "g">>>>,
     <<<<"e", "t", "a", "g">>, <<"E", "T", "a", "g">>>>,
     <<<<"l", "i", "n", "k">>, <<"L", "i", "n", "k">>>>}

\* GetWithHeaders after request returned: for each target, the values of
\* resp.Headers[headerName] under standardName when there are any
GetWithHeaders(r) ==
    IF r.err # NoErr
    THEN [resp |-> NoResp, err |-> r.err]
    ELSE LET found == {t \in targetHeaders :
                          t[1] \in DOMAIN r.resp.Headers /\ Len(r.resp.Headers[t[1]]) > 0}
         IN [resp |-> [r.resp EXCEPT !.Headers =
                          [name \in {t[2] : t \in found} |->
                              r.resp.Headers[(CHOOSE t \in found : t[2] = name)[1]]]],
             err |-> NoErr]

\* the public request methods finish through request; GetWithHeaders filters
methodReturn(op, r) == IF op = "GetWithHeaders" THEN GetWithHeaders(r) ELSE r

Methods == {"Get", "Post", "Patch", "Delete", "GetWithHeaders"}

\* history kept with the return of Login, Logout and Close: the client's mutable
\* fields before the call and, for the latter two, the operation that came before
Before(c) == [sessionToken |-> c.sessionToken, idleConns |-> c.idleConns]
NoBefore == [sessionToken |-> "", idleConns |-> FALSE]

Returned(op, resp, err, panicked, before, prevOp) ==
    [op |-> op, resp |-> resp, err |-> err, panicked |-> panicked,
     before |-> before, prevOp |-> prevOp]

\* one record of the wire history
Exchange(op, hdrs, reply, err) ==
    [op |-> op, XAuthToken |-> hdrs.XAuthToken, BasicAuth |-> hdrs.BasicAuth,
     reply |-> [kind |-> reply.kind, status |-> reply.status, body |-> reply.body,
                xAuthToken |-> reply.xAuthToken, headers |-> reply.headers],
     err |-> err]

\* the headers of the login POST: Content-Type only
LoginHeaders == [BasicAuth |-> [present |-> FALSE, value |-> <<"", "">>], XAuthToken |-> NoHeader]

\* the token a session-creation response issues: header first, body otherwise
IssuedToken(r) == IF r.xAuthToken # "" THEN r.xAuthToken ELSE BodyToken(r.body)

-----------------------------------------------------------------------------
(* Client operations as steps of the goroutine that owns the client *)

\* c.request entered (through Get, Post, Patch, Delete or GetWithHeaders):
\* Post and Patch marshal their data first; then retry.Do is set up
BeginRequest(op, marshalOK) ==
    /\ ~call.active
    /\ wire' = <<>>
    /\ slept' = <<>>
    /\ UNCHANGED <<client, granted>>
    /\ IF op \in {"Post", "Patch"} /\ ~marshalOK
       THEN /\ call' = NoCall
            /\ ret' = Returned(op, NoResp, PlainError(<<"failed to marshal request data", 0, "">>),
                               FALSE, NoBefore, "")
       ELSE IF RetryAttempts(client.config) < 0
       THEN \* make(Error, attempts) with attempts near 2^64: the goroutine panics
            /\ call' = NoCall
            /\ ret' = Returned(op, NoResp, NoErr, TRUE, NoBefore, "")
       ELSE IF RetryAttempts(client.config) = 0
       THEN \* the loop body never runs; retry.Do returns its empty, non-nil error
            \* log and request returns (nil, lastErr) with lastErr still nil;
            \* GetWithHeaders then reads resp.Headers through the nil response
            /\ call' = NoCall
            /\ LET r == requestReturn(NoCall, TRUE)
               IN ret' = Returned(op, r.resp, r.err, op = "GetWithHeaders", NoBefore, "")
       ELSE /\ call' = [NoCall EXCEPT !.active = TRUE, !.op = op,
                                      !.attempts = RetryAttempts(client.config)]
            /\ ret' = Returned(op, NoResp, NoErr, FALSE, NoBefore, "")

lastAttempt_BudgetOnly(err, n, attempts) == n = attempts - 1

\* retry.Do after failed attempt n (0-based): the loop ends when RetryIf
\* refuses the error or the attempts are used up
lastAttempt(err, n, attempts) == ~IsRetryable(err) \/ n = attempts - 1

\* one iteration of retry.Do's loop: the attempt (doRequest), its
\* classification, and either the sleep before the next one or the return
Attempt(r) ==
    /\ call.active
    /\ call.n < call.attempts
    /\ LET d == doRequest(client, r)
           sent == Exchange(call.op, addAuthHeaders(client),
                            [kind |-> r.kind, status |-> r.status, body |-> r.body,
                             xAuthToken |-> "", headers |-> r.headers], d.err)
       IN /\ client' = d.client
          /\ wire' = Append(wire, sent)
          /\ UNCHANGED granted
          /\ IF d.err = NoErr
             THEN LET done == [call EXCEPT !.lastResp = d.resp]
                      out == methodReturn(call.op, requestReturn(done, FALSE))
                  IN /\ call' = NoCall
                     /\ ret' = Returned(call.op, out.resp, out.err, FALSE, ret.before, ret.prevOp)
                     /\ UNCHANGED slept
             ELSE LET failed == [call EXCEPT !.lastErr = d.err,
                                             !.errorLog = Append(call.errorLog, d.err)]
                  IN IF lastAttempt(d.err, call.n, call.attempts)
                     THEN LET out == methodReturn(call.op, requestReturn(failed, TRUE))
                          IN /\ call' = NoCall
                             /\ ret' = Returned(call.op, out.resp, out.err, FALSE,
                                                ret.before, ret.prevOp)
                             /\ UNCHANGED slept
                     ELSE /\ call' = [failed EXCEPT !.n = call.n + 1]
                          /\ slept' = Append(slept, DelayTime(call.n, client.config))
                          /\ UNCHANGED ret

LoginStep_Retries(r) ==
    /\ ~call.active
    /\ LET l == Login(client, r)
           sent == Exchange("Login", LoginHeaders,
                            [kind |-> r.kind, status |-> r.status, body |-> r.body,
                             xAuthToken |-> r.xAuthToken, headers |-> <<>>], l.err)
           again == l.exchanged /\ l.err # NoErr /\ IsRetryable(l.err)
       IN /\ client' = l.client
          /\ wire' = IF again THEN <<sent, sent>> ELSE IF l.exchanged THEN <<sent>> ELSE <<>>
          /\ slept' = IF again THEN <<DelayTime(0, client.config)>> ELSE <<>>
          /\ ret' = Returned("Login", NoResp, l.err, FALSE, Before(client), "")
          /\ granted' = IF l.exchanged /\ l.err = NoErr THEN IssuedToken(r) ELSE granted
    /\ UNCHANGED call

\* Client.Login called
LoginStep(r) ==
    /\ ~call.active
    /\ LET l == Login(client, r)
       IN /\ client' = l.client
          /\ wire' = IF l.exchanged
                     THEN <<Exchange("Login", LoginHeaders,
                                     [kind |-> r.kind, status |-> r.status, body |-> r.body,
                                      xAuthToken |-> r.xAuthToken, headers |-> <<>>], l.err)>>
                     ELSE <<>>
          /\ ret' = Returned("Login", NoResp, l.err, FALSE, Before(client), "")
          /\ granted' = IF l.exchanged /\ l.err = NoErr THEN IssuedToken(r) ELSE granted
    /\ slept' = <<>>
    /\ UNCHANGED call

\* Client.Logout called
LogoutStep ==
    /\ ~call.active
    /\ LET l == Logout(client)
       IN /\ client' = l.client
          /\ ret' = Returned("Logout", NoResp, l.err, FALSE, Before(client), ret.op)
    /\ granted' = ""
    /\ wire' = <<>>
    /\ slept' = <<>>
    /\ UNCHANGED call

\* Client.Close called
CloseStep ==
    /\ ~call.active
    /\ LET l == Close(client)
       IN /\ client' = l.client
          /\ ret' = Returned("Close", NoResp, l.err, FALSE, Before(client), ret.op)
    /\ granted' = ""
    /\ wire' = <<>>
    /\ slept' = <<>>
    /\ UNCHANGED call

-----------------------------------------------------------------------------
(* HostManager *)

HostConfig(addr, port, user, pass, auth, ca) ==
    [Address |-> addr, Port |-> port, Username |-> user, Password |-> pass,
     AuthMethod |-> auth, TLSServerCACert |-> ca]

\* config.HostConfig{Address: a}
BareHost(addr) == HostConfig(addr, 0, "", "", "", "")

NoHost == HostConfig(<<>>, 0, "", "", "", "")

DiscoveredHost(addr, root) == [Address |-> addr, ServiceRoot |-> root]

\* the map allHosts after the loop over staticHosts: a later entry for an
\* address replaces an earlier one
StaticMap(static) ==
    [a \in {static[i].Address : i \in DOMAIN static} |->
        LET last == CHOOSE i \in DOMAIN static :
                        /\ static[i].Address = a
                        /\ \A j \in DOMAIN static : static[j].Address = a => j <= i
        IN static[last]]

MergedMap_DiscoveredWins(static, discovered) ==
    LET m == StaticMap(static)
        found == {discovered[i].Address : i \in DOMAIN discovered}
    IN [a \in DOMAIN m \cup found |-> IF a \in found THEN BareHost(a) ELSE m[a]]

\* the map allHosts after the loop over discoveredHosts
MergedMap(static, discovered) ==
    LET m == StaticMap(static)
        extra == {discovered[i].Address : i \in DOMAIN discovered} \ DOMAIN m
    IN [a \in DOMAIN m \cup extra |-> IF a \in DOMAIN m THEN m[a] ELSE BareHost(a)]

GetHosts_StaticOnly(static, discovered) ==
    LET m == StaticMap(static)
        n == Cardinality(DOMAIN m)
    IN {[i \in 1..n |-> m[p[i]]] :
            p \in {q \in [1..n -> DOMAIN m] : \A a \in DOMAIN m : \E i \in 1..n : q[i] = a}}

\* GetHosts: the values of allHosts in the order the map iteration yields
\* them, which Go leaves unspecified: the set of possible results
GetHosts(static, discovered) ==
    LET m == MergedMap(static, discovered)
        n == Cardinality(DOMAIN m)
    IN {[i \in 1..n |-> m[p[i]]] :
            p \in {q \in [1..n -> DOMAIN m] : \A a \in DOMAIN m : \E i \in 1..n : q[i] = a}}

\* GetHostByAddress: linear scan of one GetHosts result
GetHostByAddress(hosts, address) ==
    IF \E i \in DOMAIN hosts : hosts[i].Address = address
    THEN [host |-> hosts[CHOOSE i \in DOMAIN hosts :
                            /\ hosts[i].Address = address
                            /\ \A j \in DOMAIN hosts : hosts[j].Address = address => i <= j],
          found |-> TRUE]
    ELSE [host |-> NoHost, found |-> FALSE]

\* GetAddresses: the addresses of one GetHosts result, in its order
GetAddresses(hosts) == [i \in DOMAIN hosts |-> hosts[i].Address]

NoView == [op |-> "", hosts |-> <<>>, addresses |-> <<>>, address |-> <<>>,
           host |-> NoHost, found |-> FALSE]

\* addresses the network and the configuration use
AddrA == <<"a">>
AddrB == <<"b">>
AddrC == <<"c">>
Addresses == {AddrA, AddrB, AddrC}

\* what a discovery cycle can report about one endpoint
DiscoveredEntries ==
    {DiscoveredHost(a, "https://h/redfish/v1") : a \in Addresses}
    \cup {DiscoveredHost(AddrC, "https://c/redfish/v1/")}

DiscoveredLists == UNION {[1..n -> DiscoveredEntries] : n \in 0..MaxDiscovered}

\* no UpdateDiscoveredHosts call yet
NoUpdate == [called |-> FALSE, hosts |-> <<>>, static |-> <<>>, before |-> {}]

UpdateDiscoveredHosts_Appends(hosts) ==
    /\ discoveredHosts' = discoveredHosts \o hosts
    /\ view' = NoView
    /\ updated' = [called |-> TRUE, hosts |-> hosts, static |-> staticHosts,
                   before |-> {discoveredHosts[i].Address : i \in DOMAIN discoveredHosts}]
    /\ UNCHANGED <<staticHosts, serverConfig, otherVars, handler, clientVars>>

\* UpdateDiscoveredHosts(hosts): the slice is replaced under the write lock
UpdateDiscoveredHosts(hosts) ==
    /\ discoveredHosts' = hosts
    /\ view' = NoView
    /\ updated' = [called |-> TRUE, hosts |-> hosts, static |-> staticHosts,
                   before |-> {discoveredHosts[i].Address : i \in DOMAIN discoveredHosts}]
    /\ UNCHANGED <<staticHosts, serverConfig, otherVars, handler, clientVars>>

\* a caller reads the merged list
ReadHosts ==
    /\ \E hs \in GetHosts(staticHosts, discoveredHosts) :
          view' = [NoView EXCEPT !.op = "GetHosts", !.hosts = hs]
    /\ UNCHANGED <<staticHosts, discoveredHosts, updated, serverConfig, otherVars, handler, clientVars>>

\* a caller reads the addresses (handleListServers)
ReadAddresses ==
    /\ \E hs \in GetHosts(staticHosts, discoveredHosts) :
          view' = [NoView EXCEPT !.op = "GetAddresses", !.hosts = hs,
                                 !.addresses = GetAddresses(hs)]
    /\ UNCHANGED <<staticHosts, discoveredHosts, updated, serverConfig, otherVars, handler, clientVars>>

\* a caller looks an address up
ReadHostByAddress(address) ==
    /\ \E hs \in GetHosts(staticHosts, discoveredHosts) :
          LET l == GetHostByAddress(hs, address)
          IN view' = [NoView EXCEPT !.op = "GetHostByAddress", !.hosts = hs,
                                    !.address = address, !.host = l.host, !.found = l.found]
    /\ UNCHANGED <<staticHosts, discoveredHosts, updated, serverConfig, otherVars, handler, clientVars>>

-----------------------------------------------------------------------------
(* HostManager.mu and the goroutines that share the HostManager *)

\* sync.RWMutex, unlocked
NoLock == [writer |-> FALSE, readers |-> 0]

\* hm.mu.RLock() returns when no writer holds the mutex
CanRLock_IgnoresWriter(m) == TRUE
CanRLock(m) == ~m.writer
RLock(m) == [m EXCEPT !.readers = @ + 1]
RUnlock(m) == [m EXCEPT !.readers = @ - 1]

\* hm.mu.Lock() returns when nobody holds the mutex
CanLock(m) == ~m.writer /\ m.readers = 0
Lock(m) == [m EXCEPT !.writer = TRUE]
Unlock(m) == [m EXCEPT !.writer = FALSE]

NoTasks == <<>>

\* the goroutines of tool calls (readers) and of a discovery cycle (writer)
Readers == {"r1", "r2"}
Writers == {"w1"}

\* a goroutine outside the HostManager
IdleTask ==
    [pc |-> "idle", op |-> "", address |-> <<>>, hosts |-> <<>>,
     static |-> <<>>, discovered |-> <<>>, seen |-> {},
     result |-> <<>>, addresses |-> <<>>, host |-> NoHost, found |-> FALSE]

\* the operations a reader calls
ReadOps ==
    {[op |-> "GetHosts", address |-> <<>>],
     [op |-> "GetAddresses", address |-> <<>>],
     [op |-> "GetHostByAddress", address |-> AddrC]}

\* the lists discovery cycles hand to UpdateDiscoveredHosts
UpdateLists ==
    {<<>>,
     <<DiscoveredHost(AddrC, "https://h/redfish/v1")>>,
     <<DiscoveredHost(AddrA, "https://h/redfish/v1"), DiscoveredHost(AddrB, "https://h/redfish/v1")>>}

Min(a, b) == IF a < b THEN a ELSE b

\* a slice header read while its words are being written: the data pointer of
\* one slice with the length of the other; elements past the end of the
\* array are whatever the memory holds
Torn(data, len) ==
    {l \in [1..len -> DiscoveredEntries] : \A i \in 1..Min(len, Len(data)) : l[i] = data[i]}

\* the values a load of hm.discoveredHosts can yield
LoadDiscovered ==
    IF \E w \in Writers : tasks[w].pc = "storing"
    THEN LET w == CHOOSE w \in Writers : tasks[w].pc = "storing"
         IN Torn(tasks[w].hosts, Len(discoveredHosts))
                \cup Torn(discoveredHosts, Len(tasks[w].hosts))
    ELSE {discoveredHosts}

lockFrame == UNCHANGED <<staticHosts, view, updated, serverConfig, handler, clientVars,
                         disc, env, server, conf, clients, invocations>>

\* a read enters GetHosts: hm.mu.RLock()
ReaderRLock(t, o) ==
    /\ tasks[t].pc \in {"idle", "returned"}
    /\ CanRLock(mu)
    /\ mu' = RLock(mu)
    /\ tasks' = [tasks EXCEPT ![t] = [IdleTask EXCEPT !.pc = "locked", !.op = o.op,
                                                      !.address = o.address,
                                                      !.seen = {discoveredHosts}]]
    /\ UNCHANGED discoveredHosts
    /\ lockFrame

\* for _, host := range hm.staticHosts
ReaderStaticLoop(t) ==
    /\ tasks[t].pc = "locked"
    /\ tasks' = [tasks EXCEPT ![t].pc = "static_done", ![t].static = staticHosts]
    /\ UNCHANGED <<mu, discoveredHosts>>
    /\ lockFrame

\* for _, discovered := range hm.discoveredHosts
ReaderDiscoveredLoop(t) ==
    /\ tasks[t].pc = "static_done"
    /\ \E l \in LoadDiscovered :
          tasks' = [tasks EXCEPT ![t].pc = "merged", ![t].discovered = l]
    /\ UNCHANGED <<mu, discoveredHosts>>
    /\ lockFrame

\* the map becomes a slice, the deferred RUnlock runs, and GetHostByAddress
\* or GetAddresses works on the returned slice
ReaderReturn(t) ==
    /\ tasks[t].pc = "merged"
    /\ mu' = RUnlock(mu)
    /\ \E hs \in GetHosts(tasks[t].static, tasks[t].discovered) :
          LET l == GetHostByAddress(hs, tasks[t].address)
          IN tasks' = [tasks EXCEPT
                ![t].pc = "returned",
                ![t].result = hs,
                ![t].addresses = IF tasks[t].op = "GetAddresses" THEN GetAddresses(hs) ELSE <<>>,
                ![t].host = IF tasks[t].op = "GetHostByAddress" THEN l.host ELSE NoHost,
                ![t].found = IF tasks[t].op = "GetHostByAddress" THEN l.found ELSE FALSE]
    /\ UNCHANGED discoveredHosts
    /\ lockFrame

\* UpdateDiscoveredHosts(hosts): hm.mu.Lock()
WriterLock(t, hosts) ==
    /\ tasks[t].pc \in {"idle", "returned"}
    /\ CanLock(mu)
    /\ mu' = Lock(mu)
    /\ tasks' = [tasks EXCEPT ![t] = [IdleTask EXCEPT !.pc = "locked", !.hosts = hosts]]
    /\ UNCHANGED discoveredHosts
    /\ lockFrame

\* hm.discoveredHosts = hosts: the first word of the slice header is written
WriterStoreBegin(t) ==
    /\ tasks[t].pc = "locked"
    /\ tasks' = [tasks EXCEPT ![t].pc = "storing"]
    /\ UNCHANGED <<mu, discoveredHosts>>
    /\ lockFrame

\* hm.discoveredHosts = hosts: the header is complete
WriterStoreEnd(t) ==
    /\ tasks[t].pc = "storing"
    /\ discoveredHosts' = tasks[t].hosts
    /\ tasks' = [u \in DOMAIN tasks |->
                    IF u = t THEN [tasks[u] EXCEPT !.pc = "stored"]
                    ELSE IF tasks[u].pc \in {"locked", "static_done", "merged"}
                    THEN [tasks[u] EXCEPT !.seen = @ \cup {tasks[t].hosts}]
                    ELSE tasks[u]]
    /\ UNCHANGED mu
    /\ lockFrame

\* hm.mu.Unlock()
WriterUnlock(t) ==
    /\ tasks[t].pc = "stored"
    /\ mu' = Unlock(mu)
    /\ tasks' = [tasks EXCEPT ![t].pc = "returned"]
    /\ UNCHANGED discoveredHosts
    /\ lockFrame

-----------------------------------------------------------------------------
(* SSDPDiscovery.Discover *)

\* strings are sequences of one-character strings

Whitespace == {" ", "\t", "\r", "\n"}

IsSchemeMark(c) == c \in {"0", "1", "2", "3", "4", "5", "6", "7", "8", "9", "+", "-", "."}

\* strings.Index for a one-character separator: 0 when absent
IndexOf(str, c) ==
    IF \E i \in DOMAIN str : str[i] = c
    THEN CHOOSE i \in DOMAIN str : str[i] = c /\ \A j \in 1..(i - 1) : str[j] # c
    ELSE 0

HasPrefix(str, prefix) ==
    Len(str) >= Len(prefix) /\ SubSeq(str, 1, Len(prefix)) = prefix

\* strings.TrimSpace
TrimSpace(str) ==
    LET keep == {i \in DOMAIN str : str[i] \notin Whitespace}
    IN IF keep = {} THEN <<>>
       ELSE SubSeq(str, CHOOSE i \in keep : \A j \in keep : i <= j,
                        CHOOSE i \in keep : \A j \in keep : j <= i)

\* strings.Split(response, "\n")
RECURSIVE Split(_)
Split(str) ==
    LET i == IndexOf(str, "\n")
    IN IF i = 0 THEN <<str>>
       ELSE <<SubSeq(str, 1, i - 1)>> \o Split(SubSeq(str, i + 1, Len(str)))

\* alRegex.FindStringSubmatch(line)[1] for (?i)^AL:\s*(.+)$ : the capture, or
\* no match; line has been trimmed
ALSubmatch(line) ==
    IF Len(line) >= 3 /\ ToLower(line[1]) = "a" /\ ToLower(line[2]) = "l" /\ line[3] = ":"
    THEN LET rest == SubSeq(line, 4, Len(line))
             value == {i \in DOMAIN rest : rest[i] \notin Whitespace}
         IN IF value = {}
            THEN [matched |-> FALSE, capture |-> <<>>]
            ELSE [matched |-> TRUE,
                  capture |-> SubSeq(rest, CHOOSE i \in value : \A j \in value : i <= j,
                                     Len(rest))]
    ELSE [matched |-> FALSE, capture |-> <<>>]

parseAL_LastMatch(response) ==
    LET lines == Split(response)
        hits == {i \in DOMAIN lines : ALSubmatch(TrimSpace(lines[i])).matched}
    IN IF hits = {} THEN <<>>
       ELSE TrimSpace(ALSubmatch(TrimSpace(lines[CHOOSE i \in hits : \A j \in hits : j <= i])).capture)

\* parseAL: the value of the first line that is an AL header, "" without one
parseAL(response) ==
    LET lines == Split(response)
        hits == {i \in DOMAIN lines : ALSubmatch(TrimSpace(lines[i])).matched}
    IN IF hits = {} THEN <<>>
       ELSE TrimSpace(ALSubmatch(TrimSpace(lines[CHOOSE i \in hits : \A j \in hits : i <= j])).capture)

URLError == [err |-> TRUE, Scheme |-> <<>>, Opaque |-> <<>>, Host |-> <<>>,
             Path |-> <<>>, RawQuery |-> <<>>]
URLValue(scheme, opaque, host, path, query) ==
    [err |-> FALSE, Scheme |-> scheme, Opaque |-> opaque, Host |-> host,
     Path |-> path, RawQuery |-> query]

\* url.getScheme: the letters, digits and + - . before the first ':', when
\* they start with a letter; no scheme otherwise
getScheme(rawURL) ==
    LET stops == {i \in DOMAIN rawURL :
                    \/ rawURL[i] = ":"
                    \/ ~IsLetter(rawURL[i]) /\ ~IsSchemeMark(rawURL[i])
                    \/ i = 1 /\ IsSchemeMark(rawURL[i])}
    IN IF stops = {}
       THEN [err |-> FALSE, scheme |-> <<>>, rest |-> rawURL]
       ELSE LET i == CHOOSE i \in stops : \A j \in stops : i <= j
            IN IF rawURL[i] # ":"
               THEN [err |-> FALSE, scheme |-> <<>>, rest |-> rawURL]
               ELSE IF i = 1
               THEN [err |-> TRUE, scheme |-> <<>>, rest |-> <<>>]
               ELSE [err |-> FALSE, scheme |-> SubSeq(rawURL, 1, i - 1),
                     rest |-> SubSeq(rawURL, i + 1, Len(rawURL))]

\* url.parseAuthority for an authority without user information and without
\* an IPv6 literal: the host with its port, which must be decimal
parseAuthority(authority) ==
    LET i == IndexOf(authority, ":")
    IN IF i # 0 /\ \E j \in (i + 1)..Len(authority) :
                      authority[j] \notin {"0", "1", "2", "3", "4", "5", "6", "7", "8", "9"}
       THEN [err |-> TRUE, host |-> <<>>]
       ELSE [err |-> FALSE, host |-> authority]

\* url.Parse, for URLs without percent escapes
ParseURL(rawURL) ==
    LET hash == IndexOf(rawURL, "#")
        u == IF hash = 0 THEN rawURL ELSE SubSeq(rawURL, 1, hash - 1)
        s == getScheme(u)
    IN IF \E i \in DOMAIN u : u[i] \in {"\t", "\r", "\n"} THEN URLError
       ELSE IF s.err THEN URLError
       ELSE LET scheme == ToLowerString(s.scheme)
                q == IndexOf(s.rest, "?")
                rest == IF q = 0 THEN s.rest ELSE SubSeq(s.rest, 1, q - 1)
                query == IF q = 0 THEN <<>> ELSE SubSeq(s.rest, q + 1, Len(s.rest))
            IN IF ~HasPrefix(rest, <<"/">>)
               THEN IF scheme # <<>>
                    THEN URLValue(scheme, rest, <<>>, <<>>, query)
                    ELSE LET slash == IndexOf(rest, "/")
                             segment == IF slash = 0 THEN rest ELSE SubSeq(rest, 1, slash - 1)
                         IN IF IndexOf(segment, ":") # 0 THEN URLError
                            ELSE URLValue(scheme, <<>>, <<>>, rest, query)
               ELSE IF HasPrefix(rest, <<"/", "/">>)
               THEN LET after == SubSeq(rest, 3, Len(rest))
                        slash == IndexOf(after, "/")
                        authority == IF slash = 0 THEN after ELSE SubSeq(after, 1, slash - 1)
                        path == IF slash = 0 THEN <<>> ELSE SubSeq(after, slash, Len(after))
                        a == parseAuthority(authority)
                    IN IF a.err THEN URLError
                       ELSE URLValue(scheme, <<>>, a.host, path, query)
               ELSE URLValue(scheme, <<>>, <<>>, rest, query)

HTTPSScheme == <<"h", "t", "t", "p", "s">>
ServiceRootPath == <<"/", "r", "e", "d", "f", "i", "s", "h", "/", "v", "1">>

\* pathRegex.MatchString(path) for ^/redfish/v1/?$
MatchesServiceRootPath(path) ==
    path = ServiceRootPath \/ path = ServiceRootPath \o <<"/">>

\* isValidServiceRoot: the URI parses, its scheme is https, it has a host and
\* its path is the service root
isValidServiceRoot_AnyScheme(uri) ==
    LET parsed == ParseURL(uri)
    IN ~parsed.err /\ parsed.Host # <<>> /\ MatchesServiceRootPath(parsed.Path)
isValidServiceRoot(uri) ==
    LET parsed == ParseURL(uri)
    IN /\ ~parsed.err
       /\ parsed.Scheme = HTTPSScheme
       /\ parsed.Host # <<>>
       /\ MatchesServiceRootPath(parsed.Path)

DigitChars == <<"0", "1", "2", "3", "4", "5", "6", "7", "8", "9">>

\* strconv.Itoa on a byte
RECURSIVE Decimal(_)
Decimal(n) ==
    IF n < 10 THEN <<DigitChars[n + 1]>>
    ELSE Decimal(n \div 10) \o <<DigitChars[(n % 10) + 1]>>

\* addr.IP.String() of an IPv4 address
IPString(ip) ==
    Decimal(ip[1]) \o <<".">> \o Decimal(ip[2]) \o <<".">> \o Decimal(ip[3])
        \o <<".">> \o Decimal(ip[4])

\* what devices on the network send in answer to the M-SEARCH: the sender
\* (its address as bytes and in dotted form), the name and value of the one
\* header the response may carry besides ST, and the parts of the URI in it
CRLF == <<"\r", "\n">>
StatusLine == <<"H", "T", "T", "P", "/", "1", ".", "1", " ", "2", "0", "0", " ", "O", "K">>
STLine == <<"S", "T", ":", " ", "r", "e", "d", "f", "i", "s", "h">>

SSDPResponse(ip, dotted, header, gap, scheme, host, path, tail) ==
    [ip |-> ip, dotted |-> dotted, header |-> header, gap |-> gap,
     scheme |-> scheme, host |-> host, path |-> path, tail |-> tail, second |-> <<>>]

\* a response with one more header line after the first
WithSecond(r, header, gap, value) ==
    [r EXCEPT !.second = <<[header |-> header, gap |-> gap, value |-> value]>>]

HeaderLine(header, gap, value) == header \o <<":">> \o gap \o value \o CRLF

RenderURI(r) ==
    IF r.scheme = <<>> THEN <<>>
    ELSE r.scheme \o <<":", "/", "/">> \o r.host \o r.path \o r.tail

\* the bytes of the datagram
Render(r) ==
    StatusLine \o CRLF \o STLine \o CRLF
        \o (IF r.header = <<>> THEN <<>> ELSE HeaderLine(r.header, r.gap, RenderURI(r)))
        \o (IF r.second = <<>> THEN <<>>
            ELSE HeaderLine(r.second[1].header, r.second[1].gap, r.second[1].value))
        \o CRLF

SenderA == [ip |-> <<10, 0, 0, 9>>, dotted |-> <<"1", "0", ".", "0", ".", "0", ".", "9">>]
SenderB == [ip |-> <<192, 168, 1, 20>>,
            dotted |-> <<"1", "9", "2", ".", "1", "6", "8", ".", "1", ".", "2", "0">>]

HeaderAL == <<"A", "L">>
HeaderLowerAL == <<"a", "l">>
HeaderXAL == <<"X", "-", "A", "L">>
HTTPScheme == <<"h", "t", "t", "p">>
HostH == <<"h">>
HostWithPort == <<"b", "m", "c", ":", "8", "4", "4", "3">>
QueryTail == <<"?", "a">>
FragmentTail == <<"#", "f">>
DeeperPath == ServiceRootPath \o <<"/", "S">>

ValidURI == HTTPSScheme \o <<":", "/", "/">> \o HostH \o ServiceRootPath
InvalidURI == HTTPScheme \o <<":", "/", "/">> \o HostH \o ServiceRootPath

\* two AL headers in one response
InvalidThenValid ==
    WithSecond(SSDPResponse(SenderA.ip, SenderA.dotted, HeaderAL, <<" ">>, HTTPScheme, HostH,
                            ServiceRootPath, <<>>),
               HeaderLowerAL, <<" ">>, ValidURI)
ValidThenInvalid ==
    WithSecond(SSDPResponse(SenderB.ip, SenderB.dotted, HeaderLowerAL, <<>>, HTTPSScheme, HostH,
                            ServiceRootPath, <<>>),
               HeaderAL, <<" ">>, InvalidURI)

SSDPResponses ==
    {SSDPResponse(SenderA.ip, SenderA.dotted, HeaderAL, <<" ">>, HTTPSScheme, HostH,
                  ServiceRootPath, <<>>),
     SSDPResponse(SenderB.ip, SenderB.dotted, HeaderLowerAL, <<>>, HTTPSScheme, HostWithPort,
                  ServiceRootPath \o <<"/">>, <<>>),
     SSDPResponse(SenderA.ip, SenderA.dotted, HeaderAL, <<" ">>, HTTPSScheme, HostH,
                  ServiceRootPath, QueryTail),
     SSDPResponse(SenderB.ip, SenderB.dotted, HeaderAL, <<" ">>, HTTPSScheme, HostH,
                  ServiceRootPath \o <<"/">>, FragmentTail),
     SSDPResponse(SenderA.ip, SenderA.dotted, HeaderAL, <<" ", " ">>, HTTPSScheme, HostH,
                  DeeperPath, <<>>),
     SSDPResponse(SenderB.ip, SenderB.dotted, HeaderAL, <<" ">>, HTTPScheme, HostH,
                  ServiceRootPath, <<>>),
     SSDPResponse(SenderA.ip, SenderA.dotted, HeaderAL, <<" ">>, HTTPSScheme, <<>>,
                  ServiceRootPath, <<>>),
     SSDPResponse(SenderB.ip, SenderB.dotted, HeaderXAL, <<" ">>, HTTPSScheme, HostH,
                  ServiceRootPath, <<>>),
     SSDPResponse(SenderA.ip, SenderA.dotted, HeaderAL, <<" ">>, <<>>, <<>>, <<>>, <<>>),
     SSDPResponse(SenderB.ip, SenderB.dotted, <<>>, <<>>, <<>>, <<>>, <<>>, <<>>)}

\* responses with two AL headers, and some with one or none
TwoHeaderResponses ==
    {InvalidThenValid, ValidThenInvalid}
    \cup {r \in SSDPResponses : r.host = HostH /\ r.path = ServiceRootPath /\ r.tail = <<>>}


\* what one conn.ReadFromUDP can return
ReadOutcomes ==
    {[kind |-> "timeout", sent |-> SSDPResponse(<<>>, <<>>, <<>>, <<>>, <<>>, <<>>, <<>>, <<>>)],
     [kind |-> "error", sent |-> SSDPResponse(<<>>, <<>>, <<>>, <<>>, <<>>, <<>>, <<>>, <<>>)]}
    \cup [kind : {"datagram"}, sent : SSDPResponses]

TwoHeaderOutcomes ==
    {o \in ReadOutcomes : o.kind # "datagram"} \cup [kind : {"datagram"}, sent : TwoHeaderResponses]

\* no Discover call
NoDiscover ==
    [pc |-> "none", dialed |-> FALSE, sent |-> FALSE, expired |-> FALSE, closed |-> FALSE,
     reads |-> <<>>, hosts |-> <<>>, err |-> NoErr]

\* net.DialUDP and conn.SetReadDeadline
dial(d, ok) ==
    IF ok
    THEN [NoDiscover EXCEPT !.pc = "connected", !.dialed = TRUE]
    ELSE [NoDiscover EXCEPT !.pc = "returned",
                            !.err = PlainError(<<"failed to create UDP socket", 0, "">>)]

\* conn.Write of the M-SEARCH message
send(d, ok) ==
    IF ok
    THEN [d EXCEPT !.pc = "reading", !.sent = TRUE]
    ELSE [d EXCEPT !.pc = "returned", !.closed = TRUE,
                   !.err = PlainError(<<"failed to send M-SEARCH", 0, "">>)]

\* netErr.Timeout()
IsTimeout_Never(o) == FALSE
IsTimeout(o) == o.kind = "timeout"

\* one iteration of the read loop
readStep_ErrorAborts(d, o) ==
    IF o.kind # "datagram"
    THEN [d EXCEPT !.pc = "returned", !.closed = TRUE, !.hosts = <<>>,
                   !.reads = IF o.kind = "timeout" THEN @ ELSE Append(@, o),
                   !.err = IF IsTimeout(o) THEN NoErr
                           ELSE PlainError(<<"failed to read SSDP response", 0, "">>)]
    ELSE LET alURI == parseAL(Render(o.sent))
         IN IF alURI # <<>> /\ isValidServiceRoot(alURI)
            THEN [d EXCEPT !.reads = Append(@, o),
                           !.hosts = Append(@, DiscoveredHost(IPString(o.sent.ip), alURI))]
            ELSE [d EXCEPT !.reads = Append(@, o)]

\* (reads records the reads that returned before the deadline)
readStep(d, o) ==
    IF o.kind # "datagram"
    THEN IF IsTimeout(o)
         THEN [d EXCEPT !.pc = "returned", !.closed = TRUE]
         ELSE [d EXCEPT !.reads = IF o.kind = "timeout" THEN @ ELSE Append(@, o)]
    ELSE LET alURI == parseAL(Render(o.sent))
         IN IF alURI # <<>> /\ isValidServiceRoot(alURI)
            THEN [d EXCEPT !.reads = Append(@, o),
                           !.hosts = Append(@, DiscoveredHost(IPString(o.sent.ip), alURI))]
            ELSE [d EXCEPT !.reads = Append(@, o)]

discoverFrame == UNCHANGED <<registryVars, serverConfig, handler, clientVars,
                             mu, tasks, env, server, conf, clients, invocations>>

\* Discover is called: the socket is created and the read deadline set
DiscoverDial(ok) ==
    /\ disc.pc \in {"idle", "returned"}
    /\ disc' = dial(disc, ok)
    /\ discoverFrame

DiscoverSend(ok) ==
    /\ disc.pc = "connected"
    /\ disc' = send(disc, ok)
    /\ discoverFrame

\* the time set by SetReadDeadline comes
DeadlinePasses ==
    /\ disc.pc \in {"connected", "reading"}
    /\ ~disc.expired
    /\ disc' = [disc EXCEPT !.expired = TRUE]
    /\ discoverFrame

\* conn.ReadFromUDP returns: a datagram or a failure while the deadline has
\* not passed, the timeout once it has
DiscoverRead(o) ==
    /\ disc.pc = "reading"
    /\ IF o.kind = "timeout" THEN disc.expired
       ELSE ~disc.expired /\ Len(disc.reads) < MaxReads
    /\ disc' = readStep(disc, o)
    /\ discoverFrame

-----------------------------------------------------------------------------
(* main: configuration and start-up *)

\* a JSON text is its well-formedness and the value it holds: an array of
\* objects, each a record of the keys it carries; an unset or empty
\* environment variable is NoText
NoText == [set |-> FALSE, wellFormed |-> FALSE, hosts |-> <<>>]
HostsText(wellFormed, hosts) == [set |-> TRUE, wellFormed |-> wellFormed, hosts |-> hosts]

Loopback == <<"1", "2", "7", ".", "0", ".", "0", ".", "1">>

\* `[{"address": "127.0.0.1"}]`
DefaultHostsText == HostsText(TRUE, <<[address |-> Loopback]>>)

\* the value of a key of a JSON object, the Go zero value when the key is absent
JSONField(object, key, zero) == IF key \in DOMAIN object THEN object[key] ELSE zero

\* the json tags of config.HostConfig: one object decoded into one HostConfig
UnmarshalHost(object) ==
    HostConfig(JSONField(object, "address", <<>>), JSONField(object, "port", 0),
               JSONField(object, "username", ""), JSONField(object, "password", ""),
               JSONField(object, "auth_method", ""), JSONField(object, "tls_server_ca_cert", ""))

\* json.Unmarshal([]byte(hostsJSON), &hosts)
UnmarshalHosts(text) ==
    IF text.wellFormed
    THEN [err |-> FALSE, hosts |-> [i \in DOMAIN text.hosts |-> UnmarshalHost(text.hosts[i])]]
    ELSE [err |-> TRUE, hosts |-> <<>>]

MCPTransportStdio == "stdio"
MCPTransportSSE == "sse"
MCPTransportStreamableHTTP == "streamable-http"

\* config.RedfishConfig with all its fields
LoadedRedfishConfig(hosts, port, auth, user, pass, ca, enabled, interval) ==
    [Hosts |-> hosts, Port |-> port, AuthMethod |-> auth, Username |-> user,
     Password |-> pass, TLSServerCACert |-> ca,
     DiscoveryEnabled |-> enabled, DiscoveryInterval |-> interval]

\* config.MCPConfig; the log level is a string the program changes letter by letter
MCPConfig(transport, level) == [Transport |-> transport, LogLevel |-> level]

NoConfig ==
    [Redfish |-> LoadedRedfishConfig(<<>>, 0, "", "", "", "", FALSE, 0),
     MCP |-> MCPConfig("", <<>>)]

\* HostConfig.Validate
HostConfigValid(h) ==
    /\ h.Address # <<>>
    /\ h.Port = 0 \/ (h.Port >= 1 /\ h.Port <= 65535)
    /\ h.AuthMethod \in {"", AuthMethodBasic, AuthMethodSession}

\* RedfishConfig.Validate
RedfishConfigValid(r) ==
    /\ r.Port >= 1 /\ r.Port <= 65535
    /\ r.AuthMethod \in {AuthMethodBasic, AuthMethodSession}
    /\ r.DiscoveryInterval >= 1
    /\ \A i \in DOMAIN r.Hosts : HostConfigValid(r.Hosts[i])

validTransports == {MCPTransportStdio, MCPTransportSSE, MCPTransportStreamableHTTP}

validLogLevels ==
    {<<"D", "E", "B", "U", "G">>, <<"I", "N", "F", "O">>,
     <<"W", "A", "R", "N", "I", "N", "G">>, <<"E", "R", "R", "O", "R">>,
     <<"C", "R", "I", "T", "I", "C", "A", "L">>}

MCPConfigValidate_CaseSensitive(m) ==
    IF m.Transport \notin validTransports
    THEN [err |-> "invalid transport", config |-> m]
    ELSE IF m.LogLevel \notin validLogLevels
    THEN [err |-> "invalid log_level", config |-> m]
    ELSE [err |-> "", config |-> m]

\* MCPConfig.Validate: the error ("" is nil) and the receiver as the call leaves it
MCPConfigValidate(m) ==
    IF m.Transport \notin validTransports
    THEN [err |-> "invalid transport", config |-> m]
    ELSE IF ToUpperString(m.LogLevel) \notin validLogLevels
    THEN [err |-> "invalid log_level", config |-> m]
    ELSE [err |-> "", config |-> [m EXCEPT !.LogLevel = ToUpperString(m.LogLevel)]]

\* config.Config: each section is a pointer, <<>> when nil and <<section>> otherwise
Config(redfish, mcp) == [Redfish |-> redfish, MCP |-> mcp]

\* Config.Validate: the error ("" is nil) and the configuration as the call leaves it
ConfigValidate(c) ==
    IF c.Redfish = <<>>
    THEN [err |-> "redfish configuration is required", config |-> c]
    ELSE IF ~RedfishConfigValid(c.Redfish[1])
    THEN [err |-> "redfish config validation failed", config |-> c]
    ELSE IF c.MCP = <<>>
    THEN [err |-> "mcp configuration is required", config |-> c]
    ELSE LET m == MCPConfigValidate(c.MCP[1])
         IN IF m.err # ""
            THEN [err |-> "mcp config validation failed", config |-> c]
            ELSE [err |-> "", config |-> [c EXCEPT !.MCP = <<m.config>>]]

\* no config file on disk
NoFile == [exists |-> FALSE, wellFormed |-> FALSE, config |-> NoConfig.Redfish]
ConfigFile(wellFormed, config) == [exists |-> TRUE, wellFormed |-> wellFormed, config |-> config]

\* the environment of a process that has not been started
NoEnv ==
    [configFlag |-> "", REDFISH_CONFIG_FILE |-> "", file |-> NoFile,
     REDFISH_HOSTS |-> NoText, REDFISH_DISCOVERY_ENABLED |-> "", MCP_TRANSPORT |-> "",
     REDFISH_PORT |-> <<>>, REDFISH_AUTH_METHOD |-> "", REDFISH_DISCOVERY_INTERVAL |-> <<>>,
     MCP_REDFISH_LOG_LEVEL |-> <<>>,
     device |-> <<>>]

\* getEnv(key, defaultValue): an unset variable and an empty one read the same
getEnv(value, defaultValue) == IF Len(value) # 0 THEN value ELSE defaultValue

\* the number a run of decimal digits writes
RECURSIVE DigitsValue(_)
DigitsValue(digits) ==
    IF digits = <<>> THEN 0
    ELSE 10 * DigitsValue(SubSeq(digits, 1, Len(digits) - 1))
         + ((CHOOSE i \in DOMAIN DigitChars : DigitChars[i] = digits[Len(digits)]) - 1)

\* strconv.Atoi: an optional sign and decimal digits (texts short enough for an int)
Atoi(str) ==
    LET signed == str # <<>> /\ str[1] \in {"+", "-"}
        digits == IF signed THEN Tail(str) ELSE str
    IN IF digits = <<>> \/ \E i \in DOMAIN digits : \A j \in DOMAIN DigitChars : digits[i] # DigitChars[j]
       THEN [err |-> TRUE, value |-> 0]
       ELSE [err |-> FALSE,
             value |-> IF signed /\ str[1] = "-" THEN 0 - DigitsValue(digits)
                       ELSE DigitsValue(digits)]

getEnvInt_IgnoresValue(value, defaultValue, minVal, maxVal) ==
    LET a == Atoi(value)
    IN IF value = <<>> THEN [err |-> FALSE, value |-> defaultValue]
       ELSE IF a.err \/ a.value < minVal \/ a.value > maxVal THEN [err |-> TRUE, value |-> 0]
       ELSE [err |-> FALSE, value |-> defaultValue]

\* getEnvInt(key, defaultValue, minVal, maxVal)
getEnvInt(value, defaultValue, minVal, maxVal) ==
    LET a == Atoi(value)
    IN IF value = <<>> THEN [err |-> FALSE, value |-> defaultValue]
       ELSE IF a.err \/ a.value < minVal \/ a.value > maxVal THEN [err |-> TRUE, value |-> 0]
       ELSE [err |-> FALSE, value |-> a.value]

\* getEnvBool(key, false)
getEnvBool(value) == value \in {"1", "t", "T", "TRUE", "true", "True"}

\* loadRedfishConfig with REDFISH_USERNAME, REDFISH_PASSWORD and
\* REDFISH_SERVER_CA_CERT unset; configFile is the value of REDFISH_CONFIG_FILE
loadRedfishConfig(e, configFile) ==
    IF configFile # ""
    THEN IF ~e.file.exists \/ ~e.file.wellFormed \/ ~RedfishConfigValid(e.file.config)
         THEN [err |-> TRUE, config |-> NoConfig.Redfish]
         ELSE [err |-> FALSE, config |-> e.file.config]
    ELSE LET u == UnmarshalHosts(IF e.REDFISH_HOSTS.set THEN e.REDFISH_HOSTS
                                 ELSE DefaultHostsText)
             port == getEnvInt(e.REDFISH_PORT, 443, 1, 65535)
             discoveryInterval == getEnvInt(e.REDFISH_DISCOVERY_INTERVAL, 30, 1, 3600)
         IN IF u.err \/ \E i \in DOMAIN u.hosts : ~HostConfigValid(u.hosts[i])
            THEN [err |-> TRUE, config |-> NoConfig.Redfish]
            ELSE IF port.err \/ discoveryInterval.err
            THEN [err |-> TRUE, config |-> NoConfig.Redfish]
            ELSE [err |-> FALSE,
                  config |-> LoadedRedfishConfig(u.hosts, port.value,
                                 getEnv(e.REDFISH_AUTH_METHOD, AuthMethodSession), "", "", "",
                                 getEnvBool(e.REDFISH_DISCOVERY_ENABLED),
                                 discoveryInterval.value)]

\* loadMCPConfig
loadMCPConfig(e) ==
    LET transportStr == getEnv(e.MCP_TRANSPORT, MCPTransportStdio)
    IN IF transportStr \in {MCPTransportStdio, MCPTransportSSE, MCPTransportStreamableHTTP}
       THEN [err |-> FALSE,
             config |-> MCPConfig(transportStr,
                                  getEnv(e.MCP_REDFISH_LOG_LEVEL, <<"I", "N", "F", "O">>))]
       ELSE [err |-> TRUE, config |-> NoConfig.MCP]

\* LoadFromEnv: both sections are loaded, then Config.Validate decides
LoadFromEnv(e, configFile) ==
    LET r == loadRedfishConfig(e, configFile)
        m == loadMCPConfig(e)
        v == ConfigValidate(Config(<<r.config>>, <<m.config>>))
    IN IF r.err \/ m.err \/ v.err # ""
       THEN [err |-> TRUE, config |-> NoConfig]
       ELSE [err |-> FALSE,
             config |-> [Redfish |-> v.config.Redfish[1], MCP |-> v.config.MCP[1]]]

loadStaticHosts_NoFallback(e) ==
    UnmarshalHosts(IF e.REDFISH_HOSTS.set THEN e.REDFISH_HOSTS ELSE DefaultHostsText).hosts

\* loadStaticHosts: the hosts of REDFISH_HOSTS, 127.0.0.1 when it is unset
\* or does not parse
loadStaticHosts(e) ==
    LET u == UnmarshalHosts(IF e.REDFISH_HOSTS.set THEN e.REDFISH_HOSTS ELSE DefaultHostsText)
    IN IF u.err THEN <<BareHost(Loopback)>> ELSE u.hosts

\* main has not been started
NoServer == [pc |-> "none", config |-> NoConfig, called |-> FALSE, listed |-> <<>>, err |-> ""]

mainFrame == UNCHANGED <<handler, clientVars, view, updated, mu, tasks, disc, env,
                         conf, clients, invocations>>

\* main: flag.Parse, os.Setenv, config.LoadFromEnv
MainLoadConfig ==
    /\ server.pc = "start"
    /\ LET configFile == IF env.configFlag # "" THEN env.configFlag
                         ELSE env.REDFISH_CONFIG_FILE
           l == LoadFromEnv(env, configFile)
       IN server' = IF l.err
                    THEN [server EXCEPT !.pc = "exited", !.err = "Failed to load configuration"]
                    ELSE [server EXCEPT !.pc = "loaded", !.config = l.config]
    /\ UNCHANGED <<staticHosts, discoveredHosts, serverConfig>>
    /\ mainFrame

\* mcp.NewServer: the HostManager is built and the tools are registered
MainNewServer ==
    /\ server.pc = "loaded"
    /\ staticHosts' = loadStaticHosts(env)
    /\ discoveredHosts' = <<>>
    /\ serverConfig' = server.config.Redfish
    /\ server' = [server EXCEPT !.pc = "created"]
    /\ mainFrame

\* server.Start: the stdio transport runs, any other transport is refused
\* and main exits with the error
MainStart ==
    /\ server.pc = "created"
    /\ server' = IF server.config.MCP.Transport = MCPTransportStdio
                 THEN [server EXCEPT !.pc = "running"]
                 ELSE [server EXCEPT !.pc = "exited", !.err = "unsupported transport"]
    /\ UNCHANGED <<staticHosts, discoveredHosts, serverConfig>>
    /\ mainFrame

\* a list_servers tool call: handleListServers
ToolListServers ==
    /\ server.pc = "running"
    /\ \E hs \in GetHosts(staticHosts, discoveredHosts) :
          server' = [server EXCEPT !.called = TRUE, !.listed = GetAddresses(hs)]
    /\ UNCHANGED <<staticHosts, discoveredHosts, serverConfig>>
    /\ mainFrame

-----------------------------------------------------------------------------
(* The config package called directly: Config.Validate and LoadFromEnv *)

NilConfig == Config(<<>>, <<>>)

\* nothing calls the config package
NoConf ==
    [pc |-> "none", input |-> NilConfig,
     validated |-> [err |-> "", config |-> NilConfig],
     loaded |-> [err |-> FALSE, config |-> NoConfig]]

confFrame == UNCHANGED <<registryVars, serverConfig, handler, clientVars,
                         mu, tasks, disc, env, server, clients, invocations>>

\* config.Validate() on the configuration the caller built
ValidateConfig ==
    /\ conf.pc = "built"
    /\ conf' = [conf EXCEPT !.pc = "validated", !.validated = ConfigValidate(conf.input)]
    /\ confFrame

\* config.LoadFromEnv() in the environment of the process
LoadConfig ==
    /\ conf.pc = "built"
    /\ conf' = [conf EXCEPT !.pc = "loaded",
                            !.loaded = LoadFromEnv(env, env.REDFISH_CONFIG_FILE)]
    /\ confFrame

-----------------------------------------------------------------------------
(* Server.handleGetResourceData *)

HTTPSPrefix == <<"h", "t", "t", "p", "s", ":", "/", "/">>
HTTPPrefix == <<"h", "t", "t", "p", ":", "/", "/">>

\* parseRedfishURL: the scheme, then the server up to the first '/', then the path
parseRedfishURL(url) ==
    IF Len(url) < 8 \/ SubSeq(url, 1, 8) # HTTPSPrefix
    THEN [serverAddr |-> <<>>, resourcePath |-> <<>>,
          err |-> PlainError(<<"URL must use HTTPS", 0, "">>)]
    ELSE LET withoutScheme == SubSeq(url, 9, Len(url))
             slashes == {i \in 1..Len(withoutScheme) : withoutScheme[i] = "/"}
         IN IF slashes = {}
            THEN [serverAddr |-> <<>>, resourcePath |-> <<>>,
                  err |-> PlainError(<<"invalid URL format", 0, "">>)]
            ELSE LET hostEnd == CHOOSE i \in slashes : \A j \in slashes : i <= j
                     serverAddr == SubSeq(withoutScheme, 1, hostEnd - 1)
                     resourcePath == SubSeq(withoutScheme, hostEnd, Len(withoutScheme))
                 IN IF serverAddr = <<>>
                    THEN [serverAddr |-> <<>>, resourcePath |-> <<>>,
                          err |-> PlainError(<<"empty server address", 0, "">>)]
                    ELSE [serverAddr |-> serverAddr,
                          resourcePath |-> IF resourcePath = <<>> THEN <<"/">> ELSE resourcePath,
                          err |-> NoErr]

createClientConfig_AllOrNothing(hostConfig, global) ==
    LET own == hostConfig.Username # ""
    IN [DefaultClientConfig EXCEPT
           !.Address = hostConfig.Address,
           !.Port = IF hostConfig.Port # 0 THEN hostConfig.Port ELSE global.Port,
           !.Username = IF own THEN hostConfig.Username ELSE global.Username,
           !.Password = IF own THEN hostConfig.Password ELSE global.Password,
           !.AuthMethod = IF own THEN hostConfig.AuthMethod ELSE global.AuthMethod,
           !.TLSServerCACert = IF hostConfig.TLSServerCACert = "" THEN global.TLSServerCACert
                               ELSE hostConfig.TLSServerCACert]

\* createClientConfig: the host's value where it sets one, the global one otherwise
createClientConfig(hostConfig, global) ==
    [DefaultClientConfig EXCEPT
        !.Address = hostConfig.Address,
        !.Port = IF hostConfig.Port # 0 THEN hostConfig.Port ELSE global.Port,
        !.Username = IF hostConfig.Username = "" THEN global.Username ELSE hostConfig.Username,
        !.Password = IF hostConfig.Password = "" THEN global.Password ELSE hostConfig.Password,
        !.AuthMethod = IF hostConfig.AuthMethod = "" THEN global.AuthMethod
                       ELSE hostConfig.AuthMethod,
        !.TLSServerCACert = IF hostConfig.TLSServerCACert = "" THEN global.TLSServerCACert
                            ELSE hostConfig.TLSServerCACert]

RedfishConfig(port, auth, user, pass, ca) ==
    [Port |-> port, AuthMethod |-> auth, Username |-> user, Password |-> pass,
     TLSServerCACert |-> ca]

NoOutput == [err |-> NoErr, Headers |-> <<>>, Data |-> NilData]
ErrOutput(text, cause) ==
    [err |-> PlainError(<<text, cause.Code, "">>), Headers |-> <<>>, Data |-> NilData]

\* pc "none": no handler goroutine (the client is driven directly)
NoHandler ==
    [pc |-> "none", url |-> <<>>, serverAddr |-> <<>>, resourcePath |-> <<>>,
     created |-> FALSE, closed |-> FALSE, out |-> NoOutput]

HandlerReturned(h, out) == [h EXCEPT !.pc = "returned", !.out = out]

\* URLs a tool call can carry
URLs ==
    {scheme \o host \o port \o path :
        scheme \in {HTTPSPrefix, HTTPPrefix},
        host \in Addresses \cup {<<"z">>, <<>>},
        port \in {<<>>, <<":", "4">>},
        path \in {<<>>, <<"/", "r">>}}

\* handleGetResourceData up to the construction of the client: parse the URL,
\* look the server up in the registry, build the config and the client
HandlerStart(url) ==
    /\ handler.pc \in {"idle", "returned"}
    /\ LET p == parseRedfishURL(url)
           fresh == [handler EXCEPT !.pc = "idle", !.url = url,
                                    !.serverAddr = p.serverAddr,
                                    !.resourcePath = p.resourcePath,
                                    !.created = FALSE, !.closed = FALSE, !.out = NoOutput]
       IN IF p.err # NoErr
          THEN /\ handler' = HandlerReturned(fresh, ErrOutput("invalid Redfish URL", p.err))
               /\ UNCHANGED clientVars
          ELSE \E hs \in GetHosts(staticHosts, discoveredHosts) :
                 LET l == GetHostByAddress(hs, p.serverAddr)
                 IN IF ~l.found
                    THEN /\ handler' = HandlerReturned(fresh,
                                           ErrOutput("server not found in configuration", NoErr))
                         /\ UNCHANGED clientVars
                    ELSE LET c == NewClient(createClientConfig(l.host, serverConfig))
                         IN /\ client' = c
                            /\ call' = NoCall
                            /\ wire' = <<>>
                            /\ slept' = <<>>
                            /\ ret' = Returned("", NoResp, NoErr, FALSE, NoBefore, "")
                            /\ granted' = ""
                            /\ handler' = [fresh EXCEPT !.pc = "login", !.created = TRUE]
    /\ UNCHANGED <<registryVars, serverConfig, otherVars>>

HandlerLogin_IgnoresError(r) ==
    /\ handler.pc = "login"
    /\ LoginStep(r)
    /\ handler' = [handler EXCEPT !.pc = "get"]
    /\ UNCHANGED <<registryVars, serverConfig, otherVars>>

\* client.Login(); on error the handler returns (the defer is not yet registered)
HandlerLogin(r) ==
    /\ handler.pc = "login"
    /\ LoginStep(r)
    /\ LET l == Login(client, r)
       IN handler' = IF l.err # NoErr
                     THEN HandlerReturned(handler,
                              ErrOutput("failed to login to Redfish server", l.err))
                     ELSE [handler EXCEPT !.pc = "get"]
    /\ UNCHANGED <<registryVars, serverConfig, otherVars>>

\* defer client.Close() is registered and client.GetWithHeaders(resourcePath) entered
HandlerGet ==
    /\ handler.pc = "get"
    /\ BeginRequest("GetWithHeaders", TRUE)
    /\ handler' = [handler EXCEPT !.pc = "getting"]
    /\ UNCHANGED <<registryVars, serverConfig, otherVars>>

\* GetWithHeaders has returned: the handler returns and the deferred Close runs
HandlerReturn ==
    /\ handler.pc = "getting"
    /\ ~call.active
    /\ CloseStep
    /\ handler' = [HandlerReturned(handler,
                      IF ret.err # NoErr
                      THEN ErrOutput("failed to get resource data", ret.err)
                      ELSE [err |-> NoErr, Headers |-> ret.resp.Headers, Data |-> ret.resp.Data])
                   EXCEPT !.closed = TRUE]
    /\ UNCHANGED <<registryVars, serverConfig, otherVars>>

-----------------------------------------------------------------------------
(* The client driven directly through its public methods *)

ClientLogin(r) ==
    /\ handler.pc = "none"
    /\ LoginStep(r)
    /\ UNCHANGED <<registryVars, serverConfig, otherVars, handler>>

ClientLogout ==
    /\ handler.pc = "none"
    /\ LogoutStep
    /\ UNCHANGED <<registryVars, serverConfig, otherVars, handler>>

ClientClose ==
    /\ handler.pc = "none"
    /\ CloseStep
    /\ UNCHANGED <<registryVars, serverConfig, otherVars, handler>>

ClientRequest(op, marshalOK) ==
    /\ handler.pc = "none"
    /\ BeginRequest(op, marshalOK)
    /\ UNCHANGED <<registryVars, serverConfig, otherVars, handler>>

RequestAttempt(r) ==
    /\ Attempt(r)
    /\ UNCHANGED <<registryVars, serverConfig, otherVars, handler>>

-----------------------------------------------------------------------------
(* Concurrent get_resource_data calls: one goroutine per call *)

\* the tool calls in progress at the same time
Invocations == {"i1", "i2"}

clientOf_OneForAll(i) == "i1"

\* `client := redfish.NewClient(...)`: the variable that holds the client of
\* call i is a local of that call
clientOf(i) == i

\* the authentication headers of the latest attempt of a call, and how many
\* attempts it has made
NoSent ==
    [attempts |-> 0, XAuthToken |-> NoHeader,
     BasicAuth |-> [present |-> FALSE, value |-> <<"", "">>]]

\* a call that has not started: its locals, the ClientConfig it built, the
\* token its own Login was issued
IdleInvocation ==
    [pc |-> "idle", serverAddr |-> <<>>, resourcePath |-> <<>>,
     config |-> DefaultClientConfig, granted |-> "", call |-> NoCall,
     sent |-> NoSent, out |-> NoOutput]

invokeFrame == UNCHANGED <<registryVars, serverConfig, handler, clientVars,
                           mu, tasks, disc, env, server, conf>>

\* handleGetResourceData up to the construction of the client
InvokeStart(i, url) ==
    /\ invocations[i].pc \in {"idle", "returned"}
    /\ LET p == parseRedfishURL(url)
           fresh == [IdleInvocation EXCEPT !.serverAddr = p.serverAddr,
                                           !.resourcePath = p.resourcePath]
       IN IF p.err # NoErr
          THEN /\ invocations' = [invocations EXCEPT ![i] =
                                     [fresh EXCEPT !.pc = "returned",
                                                   !.out = ErrOutput("invalid Redfish URL", p.err)]]
               /\ UNCHANGED clients
          ELSE \E hs \in GetHosts(staticHosts, discoveredHosts) :
                 LET l == GetHostByAddress(hs, p.serverAddr)
                     cfg == createClientConfig(l.host, serverConfig)
                 IN IF ~l.found
                    THEN /\ invocations' = [invocations EXCEPT ![i] =
                                [fresh EXCEPT !.pc = "returned",
                                              !.out = ErrOutput("server not found in configuration",
                                                                NoErr)]]
                         /\ UNCHANGED clients
                    ELSE /\ clients' = [clients EXCEPT ![clientOf(i)] = NewClient(cfg)]
                         /\ invocations' = [invocations EXCEPT ![i] =
                                [fresh EXCEPT !.pc = "login", !.config = cfg]]
    /\ invokeFrame

\* client.Login(); on success the deferred Close is registered and
\* GetWithHeaders enters request, which sets retry.Do up
InvokeLogin(i, r) ==
    /\ invocations[i].pc = "login"
    /\ LET l == Login(clients[clientOf(i)], r)
           inv == invocations[i]
       IN /\ clients' = [clients EXCEPT ![clientOf(i)] = l.client]
          /\ invocations' = [invocations EXCEPT ![i] =
                IF l.err # NoErr
                THEN [inv EXCEPT !.pc = "returned",
                                 !.out = ErrOutput("failed to login to Redfish server", l.err)]
                ELSE [inv EXCEPT !.pc = "get",
                                 !.granted = IF l.exchanged THEN IssuedToken(r) ELSE "",
                                 !.call = [NoCall EXCEPT !.active = TRUE, !.op = "GetWithHeaders",
                                                         !.attempts = RetryAttempts(inv.config)]]]
    /\ invokeFrame

\* one iteration of the retry loop of the call's GetWithHeaders
InvokeAttempt(i, r) ==
    /\ invocations[i].pc = "get"
    /\ LET c == clients[clientOf(i)]
           inv == invocations[i]
           d == doRequest(c, r)
           hdrs == addAuthHeaders(c)
           sent == [attempts |-> inv.sent.attempts + 1, XAuthToken |-> hdrs.XAuthToken,
                    BasicAuth |-> hdrs.BasicAuth]
           done == [inv.call EXCEPT !.lastResp = d.resp]
           failed == [inv.call EXCEPT !.lastErr = d.err,
                                      !.errorLog = Append(inv.call.errorLog, d.err)]
       IN /\ clients' = [clients EXCEPT ![clientOf(i)] = d.client]
          /\ invocations' = [invocations EXCEPT ![i] =
                IF d.err = NoErr
                THEN LET out == methodReturn("GetWithHeaders", requestReturn(done, FALSE))
                     IN [inv EXCEPT !.pc = "closing", !.sent = sent, !.call = NoCall,
                                    !.out = [err |-> NoErr, Headers |-> out.resp.Headers,
                                             Data |-> out.resp.Data]]
                ELSE IF lastAttempt(d.err, inv.call.n, inv.call.attempts)
                THEN LET out == methodReturn("GetWithHeaders", requestReturn(failed, TRUE))
                     IN [inv EXCEPT !.pc = "closing", !.sent = sent, !.call = NoCall,
                                    !.out = ErrOutput("failed to get resource data", out.err)]
                ELSE [inv EXCEPT !.sent = sent, !.call = [failed EXCEPT !.n = inv.call.n + 1]]]
    /\ invokeFrame

\* the call returns and its deferred client.Close() runs
InvokeReturn(i) ==
    /\ invocations[i].pc = "closing"
    /\ clients' = [clients EXCEPT ![clientOf(i)] = Close(clients[clientOf(i)]).client]
    /\ invocations' = [invocations EXCEPT ![i].pc = "returned"]
    /\ invokeFrame

-----------------------------------------------------------------------------
(* Initial states *)

HostA == HostConfig(AddrA, 8443, "admin", "secret", AuthMethodBasic, "/ca.pem")
HostA2 == HostConfig(AddrA, 0, "", "", "", "")
HostB == HostConfig(AddrB, 0, "", "", "", "")
\* hosts that set some fields and leave the others to the global configuration
HostP == HostConfig(AddrB, 8443, "", "secret", "", "")
HostQ == HostConfig(AddrA, 0, "admin", "", AuthMethodBasic, "/ca.pem")

\* host lists a REDFISH_HOSTS array can hold
StaticLists == {<<>>, <<HostA>>, <<HostA, HostB>>, <<HostA, HostA2>>, <<HostA2, HostB, HostA>>}

GlobalConfigs ==
    {RedfishConfig(443, AuthMethodBasic, "root", "pw", ""),
     RedfishConfig(443, AuthMethodSession, "root", "pw", "/global.pem")}

InitClient(cfg) ==
    /\ client = NewClient(cfg)
    /\ call = NoCall
    /\ wire = <<>>
    /\ slept = <<>>
    /\ ret = Returned("", NoResp, NoErr, FALSE, NoBefore, "")
    /\ granted = ""

InitRegistry(static, discovered) ==
    /\ staticHosts = static
    /\ discoveredHosts = discovered
    /\ view = NoView
    /\ updated = NoUpdate

NoClients == <<>>
NoInvocations == <<>>

\* no caller of the config package and no concurrent tool call
InitIdle ==
    /\ conf = NoConf
    /\ clients = NoClients
    /\ invocations = NoInvocations

\* no goroutine but the ones of the specification at hand
InitOthers ==
    /\ mu = NoLock
    /\ tasks = NoTasks
    /\ disc = NoDiscover
    /\ env = NoEnv
    /\ server = NoServer
    /\ InitIdle

\* configurations of the retry loop
RetryConfigs ==
    {[DefaultClientConfig EXCEPT !.MaxRetries = m, !.InitialDelay = i, !.MaxDelay = x] :
        m \in (-2)..MaxRetriesBound, i \in {0, 2, 16}, x \in {0, 3, 20}}

\* configurations of the authentication
AuthConfigs ==
    {[DefaultClientConfig EXCEPT !.AuthMethod = a, !.Username = u, !.Password = "secret",
                                 !.MaxRetries = 1] :
        a \in {AuthMethodBasic, AuthMethodSession}, u \in {"", "admin"}}

InitRetry ==
    /\ \E cfg \in RetryConfigs : InitClient(cfg)
    /\ InitRegistry(<<>>, <<>>)
    /\ serverConfig = RedfishConfig(443, AuthMethodSession, "", "", "")
    /\ handler = NoHandler
    /\ InitOthers

NextRetry ==
    \/ \E op \in Methods, marshalOK \in BOOLEAN : ClientRequest(op, marshalOK)
    \/ \E r \in Replies : RequestAttempt(r)

\* one client used through its request methods
SpecRetry == InitRetry /\ [][NextRetry]_vars

\* retry configurations that differ in the fields request does not read
BackoffConfigs ==
    {[cfg EXCEPT !.BackoffFactor = f, !.Jitter = j] :
        cfg \in {c \in RetryConfigs : c.MaxRetries >= 0}, f \in {2, 3}, j \in BOOLEAN}

BackoffReplies ==
    {r \in Replies : r.kind = "neterr" \/ (r.status \in {200, 404, 500} /\ r.body = BodyEmpty)}

InitBackoff ==
    /\ \E cfg \in BackoffConfigs : InitClient(cfg)
    /\ InitRegistry(<<>>, <<>>)
    /\ serverConfig = RedfishConfig(443, AuthMethodSession, "", "", "")
    /\ handler = NoHandler
    /\ InitOthers

NextBackoff ==
    \/ ClientRequest("Get", TRUE)
    \/ \E r \in BackoffReplies : RequestAttempt(r)

\* one client's Get under every back-off configuration
SpecBackoff == InitBackoff /\ [][NextBackoff]_vars

Init ==
    /\ \E cfg \in AuthConfigs : InitClient(cfg)
    /\ InitRegistry(<<>>, <<>>)
    /\ serverConfig = RedfishConfig(443, AuthMethodSession, "", "", "")
    /\ handler = NoHandler
    /\ InitOthers

Next ==
    \/ \E r \in LoginReplies : ClientLogin(r)
    \/ ClientLogout
    \/ ClientClose
    \/ \E op \in Methods, marshalOK \in BOOLEAN : ClientRequest(op, marshalOK)
    \/ \E r \in Replies : RequestAttempt(r)

\* one client used through all its public methods, in any order
Spec == Init /\ [][Next]_vars

InitHandler ==
    /\ InitClient(DefaultClientConfig)
    /\ \E static \in {<<HostA, HostB>>, <<HostQ, HostP>>} :
          InitRegistry(static, <<DiscoveredHost(AddrC, "https://b/redfish/v1/")>>)
    /\ serverConfig \in GlobalConfigs
    /\ handler = [NoHandler EXCEPT !.pc = "idle"]
    /\ InitOthers

NextHandler ==
    \/ \E url \in URLs : HandlerStart(url)
    \/ \E r \in LoginReplies : HandlerLogin(r)
    \/ HandlerGet
    \/ \E r \in Replies : RequestAttempt(r)
    \/ HandlerReturn

\* tool calls of get_resource_data, one after the other
SpecHandler == InitHandler /\ [][NextHandler]_vars

InitRegistrySpec ==
    /\ InitClient(DefaultClientConfig)
    /\ \E s \in StaticLists : InitRegistry(s, <<>>)
    /\ serverConfig = RedfishConfig(443, AuthMethodSession, "", "", "")
    /\ handler = NoHandler
    /\ InitOthers

NextRegistry ==
    \/ \E hs \in DiscoveredLists : UpdateDiscoveredHosts(hs)
    \/ ReadHosts
    \/ ReadAddresses
    \/ \E a \in Addresses : ReadHostByAddress(a)

\* the HostManager under discovery updates and reads
SpecRegistry == InitRegistrySpec /\ [][NextRegistry]_vars

InitLocked ==
    /\ InitClient(DefaultClientConfig)
    /\ InitRegistry(<<HostA, HostB>>, <<>>)
    /\ serverConfig = RedfishConfig(443, AuthMethodSession, "", "", "")
    /\ handler = NoHandler
    /\ mu = NoLock
    /\ tasks = [t \in Readers \cup Writers |-> IdleTask]
    /\ disc = NoDiscover
    /\ env = NoEnv
    /\ server = NoServer
    /\ InitIdle

NextLocked ==
    \/ \E t \in Readers, o \in ReadOps : ReaderRLock(t, o)
    \/ \E t \in Readers : ReaderStaticLoop(t)
    \/ \E t \in Readers : ReaderDiscoveredLoop(t)
    \/ \E t \in Readers : ReaderReturn(t)
    \/ \E t \in Writers, hosts \in UpdateLists : WriterLock(t, hosts)
    \/ \E t \in Writers : WriterStoreBegin(t)
    \/ \E t \in Writers : WriterStoreEnd(t)
    \/ \E t \in Writers : WriterUnlock(t)

\* a configuration as a config file holds it
FileConfigs ==
    {LoadedRedfishConfig(<<HostA, HostB>>, 443, AuthMethodBasic, "root", "pw", "", TRUE, 30),
     LoadedRedfishConfig(<<BareHost(Loopback)>>, 8443, AuthMethodSession, "root", "pw", "",
                         FALSE, 30),
     LoadedRedfishConfig(<<HostA>>, 0, AuthMethodSession, "", "", "", FALSE, 30)}

ConfigFiles ==
    {NoFile, ConfigFile(FALSE, NoConfig.Redfish)} \cup {ConfigFile(TRUE, c) : c \in FileConfigs}

\* the JSON objects of HostA and HostB
ObjectA ==
    [address |-> AddrA, port |-> 8443, username |-> "admin", password |-> "secret",
     auth_method |-> AuthMethodBasic, tls_server_ca_cert |-> "/ca.pem"]
ObjectB == [address |-> AddrB]

\* values of REDFISH_HOSTS: unset, not JSON, host lists, a host without address
HostsTexts ==
    {NoText, HostsText(FALSE, <<>>), HostsText(TRUE, <<ObjectA>>),
     HostsText(TRUE, <<ObjectA, ObjectB>>), HostsText(TRUE, <<[port |-> 443]>>)}

Environments ==
    {[NoEnv EXCEPT !.configFlag = flag, !.REDFISH_CONFIG_FILE = var, !.file = file,
                   !.REDFISH_HOSTS = hosts, !.REDFISH_DISCOVERY_ENABLED = enabled,
                   !.MCP_TRANSPORT = transport, !.device = AddrC] :
        flag \in {"", "cfg.json"}, var \in {"", "env.json"}, file \in ConfigFiles,
        hosts \in HostsTexts, enabled \in {"", "true", "yes"},
        transport \in {"", MCPTransportSSE, "http"}}

InitServer ==
    /\ InitClient(DefaultClientConfig)
    /\ InitRegistry(<<>>, <<>>)
    /\ serverConfig = RedfishConfig(443, AuthMethodSession, "", "", "")
    /\ handler = NoHandler
    /\ mu = NoLock
    /\ tasks = NoTasks
    /\ disc = NoDiscover
    /\ env \in Environments
    /\ server = [NoServer EXCEPT !.pc = "start"]
    /\ InitIdle

NextServer ==
    \/ MainLoadConfig
    \/ MainNewServer
    \/ MainStart
    \/ ToolListServers

\* the process from main to the tool calls it serves; a client that can call
\* list_servers does call it
SpecServer == InitServer /\ [][NextServer]_vars /\ WF_vars(NextServer)

\* host lists a caller hands to Validate: valid ones, and ones with an empty
\* address, a port out of range, an unknown auth method
ValidatedHostLists ==
    {<<>>, <<HostA>>, <<HostB>>,
     <<HostConfig(AddrB, 1, "", "", AuthMethodSession, ""), HostConfig(AddrA, 65535, "", "", "", "")>>,
     <<HostA, BareHost(<<>>)>>,
     <<HostConfig(AddrA, 65536, "", "", "", "")>>,
     <<HostConfig(AddrA, 0 - 1, "", "", "", "")>>,
     <<HostConfig(AddrA, 0, "", "", "digest", "")>>}

LogLevelTexts ==
    validLogLevels
    \cup {<<"i", "n", "f", "o">>, <<"D", "e", "b", "u", "g">>,
          <<"w", "A", "r", "N", "i", "N", "g">>, <<"t", "r", "a", "c", "e">>,
          <<"I", "N", "F", "O", "S">>, <<>>}

\* configurations a caller hands to Validate
ConfigInputs ==
    {Config(r, m) :
        r \in {<<>>} \cup {<<LoadedRedfishConfig(h, p, a, "user", "pass", "", FALSE, i)>> :
                               h \in ValidatedHostLists, p \in {0, 1, 443, 65535, 65536},
                               a \in {"", AuthMethodBasic, AuthMethodSession, "digest"},
                               i \in {0, 1, 30}},
        m \in {<<>>} \cup {<<MCPConfig(t, l)>> :
                               t \in validTransports \cup {"invalid_transport", ""},
                               l \in LogLevelTexts}}

\* environments LoadFromEnv is called in
LoadEnvironments ==
    {[NoEnv EXCEPT !.REDFISH_CONFIG_FILE = var, !.file = ConfigFile(TRUE, LoadedRedfishConfig(<<HostA, HostB>>, 443, AuthMethodBasic, "root", "pw", "",
                                                               TRUE, 30)),
                   !.REDFISH_HOSTS = hosts, !.REDFISH_PORT = port,
                   !.REDFISH_AUTH_METHOD = auth, !.REDFISH_DISCOVERY_INTERVAL = interval,
                   !.MCP_TRANSPORT = transport, !.MCP_REDFISH_LOG_LEVEL = level] :
        var \in {"", "env.json"},
        hosts \in HostsTexts \cup {HostsText(TRUE, <<>>), HostsText(TRUE, <<ObjectB, ObjectA>>)},
        port \in {<<>>, <<"8", "4", "4", "3">>, <<"0">>, <<"7", "0", "0", "0", "0">>, <<"4", "x">>},
        auth \in {"", AuthMethodBasic, AuthMethodSession, "digest"},
        interval \in {<<>>, <<"6", "0">>, <<"3", "6", "0", "1">>, <<"-", "5">>},
        transport \in {"", MCPTransportStdio, MCPTransportSSE, MCPTransportStreamableHTTP, "http"},
        level \in {<<>>, <<"d", "e", "b", "u", "g">>, <<"t", "r", "a", "c", "e">>}}

InitConfig ==
    /\ InitClient(DefaultClientConfig)
    /\ InitRegistry(<<>>, <<>>)
    /\ serverConfig = RedfishConfig(443, AuthMethodSession, "", "", "")
    /\ handler = NoHandler
    /\ mu = NoLock
    /\ tasks = NoTasks
    /\ disc = NoDiscover
    /\ server = NoServer
    /\ clients = NoClients
    /\ invocations = NoInvocations
    /\ \/ /\ env = NoEnv
          /\ \E c \in ConfigInputs : conf = [NoConf EXCEPT !.pc = "built", !.input = c]
       \/ /\ env \in LoadEnvironments
          /\ conf = [NoConf EXCEPT !.pc = "built"]

NextConfig ==
    \/ ValidateConfig
    \/ LoadConfig

\* callers of the config package, each with its own configuration and environment
SpecConfig == InitConfig /\ [][NextConfig]_vars

\* what the devices answer to concurrent calls
ConcurrentLoginReplies ==
    {[kind |-> "neterr", status |-> 0, body |-> "empty", xAuthToken |-> ""],
     [kind |-> "http", status |-> 401, body |-> "text", xAuthToken |-> ""],
     [kind |-> "http", status |-> 201, body |-> "object", xAuthToken |-> "tokH"],
     [kind |-> "http", status |-> 200, body |-> "token_B", xAuthToken |-> ""]}

ConcurrentReplies ==
    {[kind |-> "neterr", status |-> 0, body |-> BodyEmpty, headers |-> <<>>],
     [kind |-> "http", status |-> 200, body |-> BodyJSON, headers |-> <<>>],
     [kind |-> "http", status |-> 404, body |-> BodyText, headers |-> <<>>],
     [kind |-> "http", status |-> 500, body |-> BodyText, headers |-> <<>>]}

ConcurrentURLs ==
    {HTTPSPrefix \o AddrA \o <<"/", "r">>, HTTPSPrefix \o AddrB \o <<"/", "r">>,
     HTTPSPrefix \o <<"z">> \o <<"/", "r">>, HTTPPrefix \o AddrA \o <<"/", "r">>}

InitConcurrent ==
    /\ InitClient(DefaultClientConfig)
    /\ InitRegistry(<<HostA, HostB>>, <<>>)
    /\ serverConfig = RedfishConfig(443, AuthMethodSession, "root", "pw", "")
    /\ handler = NoHandler
    /\ mu = NoLock
    /\ tasks = NoTasks
    /\ disc = NoDiscover
    /\ env = NoEnv
    /\ server = NoServer
    /\ conf = NoConf
    /\ clients = [i \in Invocations |-> NewClient(DefaultClientConfig)]
    /\ invocations = [i \in Invocations |-> IdleInvocation]

NextConcurrent ==
    \/ \E i \in Invocations, url \in ConcurrentURLs : InvokeStart(i, url)
    \/ \E i \in Invocations, r \in ConcurrentLoginReplies : InvokeLogin(i, r)
    \/ \E i \in Invocations, r \in ConcurrentReplies : InvokeAttempt(i, r)
    \/ \E i \in Invocations : InvokeReturn(i)

\* get_resource_data calls served at the same time, in any interleaving
SpecConcurrent == InitConcurrent /\ [][NextConcurrent]_vars

InitDiscover ==
    /\ InitClient(DefaultClientConfig)
    /\ InitRegistry(<<>>, <<>>)
    /\ serverConfig = RedfishConfig(443, AuthMethodSession, "", "", "")
    /\ handler = NoHandler
    /\ mu = NoLock
    /\ tasks = NoTasks
    /\ disc = [NoDiscover EXCEPT !.pc = "idle"]
    /\ env = NoEnv
    /\ server = NoServer
    /\ InitIdle

NextDiscover ==
    \/ \E ok \in BOOLEAN : DiscoverDial(ok)
    \/ \E ok \in BOOLEAN : DiscoverSend(ok)
    \/ DeadlinePasses
    \/ \E o \in ReadOutcomes : DiscoverRead(o)

\* calls of Discover, one after the other; time passes, and a read that can
\* return does return
SpecDiscover ==
    /\ InitDiscover
    /\ [][NextDiscover]_vars
    /\ WF_vars(\E ok \in BOOLEAN : DiscoverSend(ok))
    /\ WF_vars(DeadlinePasses)
    /\ WF_vars(\E o \in ReadOutcomes : DiscoverRead(o))

NextTwoHeaders ==
    \/ \E ok \in BOOLEAN : DiscoverDial(ok)
    \/ \E ok \in BOOLEAN : DiscoverSend(ok)
    \/ DeadlinePasses
    \/ \E o \in TwoHeaderOutcomes : DiscoverRead(o)

\* calls of Discover answered by responses with up to two AL headers
SpecTwoHeaders == InitDiscover /\ [][NextTwoHeaders]_vars

\* tool-call goroutines reading the HostManager while a discovery goroutine
\* updates it, one statement at a time
SpecLocked == InitLocked /\ [][NextLocked]_vars

-----------------------------------------------------------------------------
(* Properties of the retry loop, checked under SpecRetry *)

IsClientError(e) == e.type = "RedfishError" /\ e.Code >= 400 /\ e.Code <= 499
IsServerOrNetworkError(e) == e.type = "RedfishError" /\ (e.Code >= 500 \/ e.Code = 0)

\* a request method has returned after at least one HTTP attempt
RequestFinished == ret.op \in Methods /\ ~call.active /\ wire # <<>>

FirstAttemptRejected == wire # <<>> /\ wire[1].op \in Methods /\ IsClientError(wire[1].err)

\* C1: a request whose first attempt fails with a 4xx protocol error makes
\* exactly one attempt, sleeps not at all and returns that error, for every
\* MaxRetries >= 0 and every request method
C1_ClientErrorNotRetried ==
    (client.config.MaxRetries >= 0 /\ FirstAttemptRejected) =>
        /\ ~call.active
        /\ Len(wire) = 1
        /\ slept = <<>>
        /\ ret.op = wire[1].op
        /\ ret.resp = NoResp
        /\ ret.err = wire[1].err

C1_Witness ==
    /\ FirstAttemptRejected
    /\ client.config.MaxRetries = MaxRetriesBound
    /\ ret.op = "Patch"
    /\ ret.err.Code = 404

AllAttemptsRetryable == \A i \in DOMAIN wire : IsServerOrNetworkError(wire[i].err)

\* C2: when every attempt fails with a status >= 500 or a network error, the
\* request makes exactly MaxRetries + 1 attempts and then returns an error;
\* no run makes more than MaxRetries + 1 attempts (MaxRetries >= 0)
C2_RetryableExhaustsBudget ==
    client.config.MaxRetries >= 0 =>
        /\ Len(wire) <= client.config.MaxRetries + 1
        /\ (call.active /\ AllAttemptsRetryable) => Len(wire) < client.config.MaxRetries + 1
        /\ (RequestFinished /\ AllAttemptsRetryable) =>
              /\ Len(wire) = client.config.MaxRetries + 1
              /\ ret.err # NoErr
              /\ ret.resp = NoResp

C2_Witness ==
    /\ RequestFinished
    /\ AllAttemptsRetryable
    /\ Len(wire) = MaxRetriesBound + 1
    /\ \E i, j \in DOMAIN wire : wire[i].err.Code = 0 /\ wire[j].err.Code = 500

NonDecreasing(s) == \A i, j \in DOMAIN s : i <= j => s[i] <= s[j]

\* C3 as stated: the delays of one request are non-decreasing and each is at
\* most MaxDelay, for every InitialDelay, MaxDelay and MaxRetries
C3_DelaysCappedAlways ==
    /\ NonDecreasing(slept)
    /\ \A i \in DOMAIN slept : slept[i] <= client.config.MaxDelay

\* C3 as amended: the delays of one request are non-decreasing, and each is at
\* most MaxDelay when MaxDelay > 0 (a MaxDelay of 0 leaves them uncapped)
C3_DelaysCappedWhenPositive ==
    /\ NonDecreasing(slept)
    /\ client.config.MaxDelay > 0 => \A i \in DOMAIN slept : slept[i] <= client.config.MaxDelay

C3_Witness ==
    /\ Len(slept) >= 2
    /\ slept[1] < slept[2]
    /\ slept[2] = client.config.MaxDelay
    /\ BackOffDelay(1, client.config.InitialDelay) > client.config.MaxDelay

\* C4: a request that fails returns the error of the last attempt made (and
\* a request whose last attempt succeeded returns no error)
C4_LastErrorReturned ==
    RequestFinished => ret.err = wire[Len(wire)].err

C4_Witness ==
    /\ RequestFinished
    /\ Len(wire) >= 2
    /\ ret.err # NoErr
    /\ wire[1].err # wire[Len(wire)].err
    /\ wire[1].err # NoErr

-----------------------------------------------------------------------------
(* Properties of the session, checked under Spec *)

IsSessionClient == client.config.AuthMethod = AuthMethodSession

\* C5: on a session client every attempt of every request carries
\* X-Auth-Token: T, T the token of the last successful Login, until Logout or
\* Close; from then on no attempt carries a token
C5_TokenOnEveryAttempt ==
    IsSessionClient =>
        \A i \in DOMAIN wire :
            wire[i].op \in Methods =>
                wire[i].XAuthToken = IF granted # "" THEN Header(granted) ELSE NoHeader

C5_Witness ==
    /\ IsSessionClient
    /\ granted = "tokH"
    /\ Len(wire) = 2
    /\ wire[2].op = "GetWithHeaders"
    /\ wire[2].XAuthToken = Header("tokH")

LoginAnswered == ret.op = "Login" /\ wire # <<>> /\ wire[1].op = "Login"
LoginAnsweredSuccess ==
    LoginAnswered /\ wire[1].reply.kind = "http" /\ wire[1].reply.status \in {StatusOK, StatusCreated}

\* C6: for a login response with status 200 or 201, a non-empty X-Auth-Token
\* header makes Login succeed with the header value whatever the body is;
\* otherwise a string field token in the JSON body makes it succeed with that
\* value; otherwise Login fails
C6_HeaderTokenWinsWhateverBody ==
    LoginAnsweredSuccess =>
        LET r == wire[1].reply
        IN IF r.xAuthToken # ""
           THEN ret.err = NoErr /\ client.sessionToken = r.xAuthToken
           ELSE IF BodyTokenIsString(r.body)
           THEN ret.err = NoErr /\ client.sessionToken = BodyToken(r.body)
           ELSE ret.err # NoErr

\* C7: a session Login that fails returns an error and leaves the session
\* token as it was; a response status other than 200/201 gives a protocol
\* error carrying that status
C7_FailedLoginKeepsToken ==
    LoginAnswered =>
        LET r == wire[1].reply
            found == r.xAuthToken # "" \/ BodyTokenIsString(r.body)
            fails == \/ r.kind = "neterr"
                     \/ r.status \notin {StatusOK, StatusCreated}
                     \/ ~DecodesAsObject(r.body)
                     \/ ~found
        IN /\ fails => ret.err # NoErr
           /\ ret.err # NoErr => client.sessionToken = ret.before.sessionToken
           /\ (r.kind = "http" /\ r.status \notin {StatusOK, StatusCreated}) =>
                 ret.err.type = "RedfishError" /\ ret.err.Code = r.status

C7_Witness ==
    /\ LoginAnswered
    /\ wire[1].reply.status = 401
    /\ wire[1].reply.xAuthToken = "tokH"
    /\ ret.err.Code = 401
    /\ client.sessionToken = ""

\* C8: Logout and Close return no error and leave the token empty in every
\* client state; repeating the call changes nothing
C8_LogoutCloseIdempotent ==
    ret.op \in {"Logout", "Close"} =>
        /\ ret.err = NoErr
        /\ client.sessionToken = ""
        /\ ret.op = "Close" => ~client.idleConns
        /\ (ret.prevOp = ret.op \/ (ret.op = "Logout" /\ ret.prevOp = "Close")) =>
              Before(client) = ret.before

C8_Witness ==
    /\ ret.op = "Close"
    /\ ret.prevOp = "Close"
    /\ IsSessionClient

-----------------------------------------------------------------------------
(* Properties of get_resource_data, checked under SpecHandler *)

\* C9: every execution of get_resource_data that constructs a client has
\* closed it when it returns, whatever the outcome
C9_ClientClosedOnReturn ==
    (handler.pc = "returned" /\ handler.created) => handler.closed

-----------------------------------------------------------------------------
(* Properties of the HostManager, checked under SpecRegistry *)

AddressesOf(list) == {list[i].Address : i \in DOMAIN list}
KnownAddresses == AddressesOf(staticHosts) \cup AddressesOf(discoveredHosts)

\* C10: GetHosts returns one entry per distinct address and its addresses are
\* the union of the static and the discovered ones; GetAddresses returns the
\* same addresses; GetHostByAddress(a) finds a exactly when a is in the union
C10_MergedViewIsUnion ==
    view.op # "" =>
        /\ \A i, j \in DOMAIN view.hosts :
              view.hosts[i].Address = view.hosts[j].Address => i = j
        /\ AddressesOf(view.hosts) = KnownAddresses
        /\ view.op = "GetAddresses" =>
              /\ Len(view.addresses) = Cardinality(KnownAddresses)
              /\ {view.addresses[i] : i \in DOMAIN view.addresses} = KnownAddresses
        /\ view.op = "GetHostByAddress" =>
              /\ view.found <=> view.address \in KnownAddresses
              /\ view.found => view.host.Address = view.address

C10_Witness ==
    /\ view.op = "GetHostByAddress"
    /\ view.found
    /\ view.address = AddrC
    /\ Len(staticHosts) = 3
    /\ Len(discoveredHosts) = 2
    /\ Len(view.hosts) = 3

\* the entry a static list gives an address: the last one in the list
IsStaticEntryFor(h, static) ==
    \E i \in DOMAIN static :
        /\ static[i] = h
        /\ \A j \in DOMAIN static : j > i => static[j].Address # h.Address

\* C11: in the merged view the entry of an address that has a static host is
\* that static host (port, credentials, auth method, CA path) whatever
\* discovery reported; the entry of an address known only from discovery is
\* the address alone, with port 0 and empty strings
C11_StaticEntryWins ==
    view.op # "" =>
        /\ \A i \in DOMAIN view.hosts :
              LET h == view.hosts[i]
              IN IF h.Address \in AddressesOf(staticHosts)
                 THEN IsStaticEntryFor(h, staticHosts)
                 ELSE /\ h.Port = 0 /\ h.Username = "" /\ h.Password = ""
                      /\ h.AuthMethod = "" /\ h.TLSServerCACert = ""
        /\ (view.op = "GetHostByAddress" /\ view.found) =>
              \E i \in DOMAIN view.hosts : view.hosts[i] = view.host

C11_Witness ==
    /\ view.op = "GetHostByAddress"
    /\ view.address = AddrA
    /\ view.host = HostA
    /\ AddrA \in AddressesOf(discoveredHosts)
    /\ AddrC \in AddressesOf(discoveredHosts)
    /\ \E i \in DOMAIN view.hosts : view.hosts[i] = BareHost(AddrC)

\* C13: after UpdateDiscoveredHosts(h) the discovered hosts are exactly h and
\* the static list is as before: an address discovered earlier, absent from
\* h and not static is no longer returned by GetHosts, and every static
\* address is still returned with its static entry
C13_UpdateReplacesWholesale ==
    updated.called =>
        /\ discoveredHosts = updated.hosts
        /\ staticHosts = updated.static
        /\ view.op # "" =>
              /\ \A a \in updated.before :
                    a \notin AddressesOf(updated.hosts) \cup AddressesOf(updated.static)
                        => a \notin AddressesOf(view.hosts)
              /\ \A a \in AddressesOf(updated.static) :
                    \E i \in DOMAIN view.hosts :
                        /\ view.hosts[i].Address = a
                        /\ IsStaticEntryFor(view.hosts[i], updated.static)

C13_Witness ==
    /\ updated.called
    /\ AddrC \in updated.before
    /\ updated.hosts # <<>>
    /\ AddrC \notin AddressesOf(updated.hosts)
    /\ Len(staticHosts) >= 2
    /\ view.op = "GetHosts"
    /\ AddrC \notin AddressesOf(view.hosts)

-----------------------------------------------------------------------------
(* Properties of the HostManager under concurrency, checked under SpecLocked *)

\* what the read of goroutine t returned is the read of list l
IsReadOf(t, l) ==
    /\ tasks[t].result \in GetHosts(staticHosts, l)
    /\ tasks[t].op = "GetAddresses" => tasks[t].addresses = GetAddresses(tasks[t].result)
    /\ tasks[t].op = "GetHostByAddress" =>
          /\ tasks[t].found <=> tasks[t].address \in AddressesOf(staticHosts) \cup AddressesOf(l)
          /\ tasks[t].found => tasks[t].host.Address = tasks[t].address

\* C12: whatever the interleaving, a read returns the merge of the static
\* list with one complete discovered list, one that was installed at some
\* moment of the read, never a mixture of two lists
C12_ReadSeesOneList ==
    \A t \in DOMAIN tasks :
        (t \in Readers /\ tasks[t].pc = "returned") =>
            \E l \in tasks[t].seen : IsReadOf(t, l)

C12_Witness ==
    /\ tasks # NoTasks
    /\ tasks["r1"].pc = "returned"
    /\ tasks["r1"].op = "GetHostByAddress"
    /\ tasks["r1"].found
    /\ tasks["r2"].pc = "merged"
    /\ tasks["r2"].discovered # tasks["r1"].discovered
    /\ tasks["w1"].pc = "returned"
    /\ Len(discoveredHosts) = 2

-----------------------------------------------------------------------------
(* Properties of SSDP discovery, checked under SpecDiscover *)

\* the response carries an AL header whose URI has scheme https, a host and
\* the service root as its path
Qualifies(r) ==
    /\ r.header \in {HeaderAL, HeaderLowerAL}
    /\ r.scheme = HTTPSScheme
    /\ r.host # <<>>
    /\ r.path \in {ServiceRootPath, ServiceRootPath \o <<"/">>}

\* one entry per qualifying datagram, in arrival order
ExpectedHosts(reads) ==
    LET q == SelectSeq(reads, LAMBDA o : o.kind = "datagram" /\ Qualifies(o.sent))
    IN [i \in DOMAIN q |-> DiscoveredHost(q[i].sent.dotted, RenderURI(q[i].sent))]

DiscoverReturnedAfterSend == disc.pc = "returned" /\ disc.sent

HasMoreThanServiceRoot(r) ==
    /\ r.header \in {HeaderAL, HeaderLowerAL}
    /\ HasPrefix(r.path, ServiceRootPath)
    /\ \/ r.tail # <<>>
       \/ r.path \notin {ServiceRootPath, ServiceRootPath \o <<"/">>}

\* C15: a response whose AL URI has anything after /redfish/v1 or
\* /redfish/v1/ (a deeper path, a query string) is rejected by
\* isValidServiceRoot and is not in the Discover result
C15_NothingAfterServiceRoot ==
    DiscoverReturnedAfterSend =>
        \A i \in DOMAIN disc.reads :
            (disc.reads[i].kind = "datagram" /\ HasMoreThanServiceRoot(disc.reads[i].sent)) =>
                /\ ~isValidServiceRoot(RenderURI(disc.reads[i].sent))
                /\ \A j \in DOMAIN disc.hosts :
                      disc.hosts[j].ServiceRoot # RenderURI(disc.reads[i].sent)

\* C16: Discover returns an error exactly when creating the socket or
\* sending the query fails, and then no hosts; once the query is sent it
\* returns without error whatever was read
C16_ErrorOnlyBeforeReading ==
    disc.pc = "returned" =>
        /\ disc.err # NoErr <=> ~(disc.dialed /\ disc.sent)
        /\ disc.err # NoErr => disc.hosts = <<>>
        /\ disc.dialed => disc.closed

C16_Witness ==
    /\ DiscoverReturnedAfterSend
    /\ disc.err = NoErr
    /\ disc.hosts = <<>>
    /\ Len(disc.reads) = 3
    /\ disc.reads[1].kind = "error"
    /\ disc.reads[2].kind = "datagram"
    /\ disc.reads[3].kind = "error"

\* C17: Discover terminates: once the socket is open the call returns, the
\* read loop ending at the read that reports the timeout, however many
\* reads came before
C17_DiscoverTerminates ==
    (disc.pc \in {"connected", "reading"}) ~> (disc.pc = "returned")

C17_Witness ==
    /\ DiscoverReturnedAfterSend
    /\ disc.expired
    /\ Len(disc.reads) = MaxReads
    /\ \E i \in DOMAIN disc.reads : disc.reads[i].kind = "error"
    /\ disc.hosts # <<>>

-----------------------------------------------------------------------------
(* Properties of start-up and of the running server, checked under SpecServer *)

\* C18: while the server runs with discovery enabled, discovery results reach
\* the registry, so that a device answering discovery eventually appears in
\* the addresses list_servers returns
C18_DiscoveredDeviceListed ==
    (server.pc = "running" /\ server.config.Redfish.DiscoveryEnabled)
        ~> (\E i \in DOMAIN server.listed : server.listed[i] = env.device)

\* C19: after start-up the static host list of the registry is the host list
\* of the loaded and validated configuration, whether it came from
\* REDFISH_HOSTS or from the config file
C19_RegistryHoldsConfiguredHosts ==
    server.pc \in {"created", "running"} => staticHosts = server.config.Redfish.Hosts

-----------------------------------------------------------------------------
(* Properties of the client configuration, checked under SpecHandler *)

\* the registry entry of the address the handler resolved
ResolvedEntry ==
    LET own == {i \in DOMAIN staticHosts : staticHosts[i].Address = handler.serverAddr}
    IN IF own = {} THEN BareHost(handler.serverAddr)
       ELSE staticHosts[CHOOSE i \in own : \A j \in own : j <= i]

\* C20: the ClientConfig built for a host takes each of port, username,
\* password, auth method and CA path from the host entry when the entry sets
\* it and from the global configuration otherwise, each field on its own; a
\* host known only from discovery gets the global values throughout
C20_FieldwiseFallback ==
    handler.created =>
        LET h == ResolvedEntry
            c == client.config
        IN /\ c.Address = handler.serverAddr
           /\ h.Port # 0 => c.Port = h.Port
           /\ h.Port = 0 => c.Port = serverConfig.Port
           /\ h.Username # "" => c.Username = h.Username
           /\ h.Username = "" => c.Username = serverConfig.Username
           /\ h.Password # "" => c.Password = h.Password
           /\ h.Password = "" => c.Password = serverConfig.Password
           /\ h.AuthMethod # "" => c.AuthMethod = h.AuthMethod
           /\ h.AuthMethod = "" => c.AuthMethod = serverConfig.AuthMethod
           /\ h.TLSServerCACert # "" => c.TLSServerCACert = h.TLSServerCACert
           /\ h.TLSServerCACert = "" => c.TLSServerCACert = serverConfig.TLSServerCACert
           /\ handler.serverAddr \notin AddressesOf(staticHosts) =>
                 /\ c.Port = serverConfig.Port
                 /\ c.Username = serverConfig.Username
                 /\ c.Password = serverConfig.Password
                 /\ c.AuthMethod = serverConfig.AuthMethod

C20_Witness ==
    /\ handler.created
    /\ handler.serverAddr = AddrB
    /\ ResolvedEntry = HostP
    /\ client.config.Port = 8443
    /\ client.config.Username = "root"
    /\ client.config.Password = "secret"
    /\ client.config.AuthMethod = AuthMethodSession
    /\ client.config.TLSServerCACert = "/global.pem"

-----------------------------------------------------------------------------
(* Properties of the configuration, checked under SpecConfig *)

\* two strings that differ in letter case only
EqualFold(a, b) == ToLowerString(a) = ToLowerString(b)

\* a configuration as the documentation describes a valid one
DescribedAsValid(c) ==
    /\ c.Redfish # <<>>
    /\ c.MCP # <<>>
    /\ LET r == c.Redfish[1]
           m == c.MCP[1]
       IN /\ r.Port \in 1..65535
          /\ r.AuthMethod \in {"basic", "session"}
          /\ r.DiscoveryInterval >= 1
          /\ \A i \in DOMAIN r.Hosts :
                /\ r.Hosts[i].Address # <<>>
                /\ r.Hosts[i].Port \in 0..65535
                /\ r.Hosts[i].AuthMethod \in {"", "basic", "session"}
          /\ m.Transport \in {"stdio", "sse", "streamable-http"}
          /\ \E l \in validLogLevels : EqualFold(m.LogLevel, l)

\* C21: Config.Validate returns no error exactly when the Redfish section is
\* present with a port in 1..65535, auth method basic or session, a discovery
\* interval of at least 1 and only valid hosts (non-empty address, port 0 or
\* in 1..65535, auth method empty, basic or session), and the MCP section is
\* present with transport stdio, sse or streamable-http and a log level that
\* is DEBUG, INFO, WARNING, ERROR or CRITICAL in any letter case; every other
\* configuration is rejected with an error
C21_ValidateAcceptsExactlyValid ==
    conf.pc = "validated" =>
        (conf.validated.err = "" <=> DescribedAsValid(conf.input))

C21_Witness ==
    /\ conf.pc = "validated"
    /\ conf.validated.err = ""
    /\ conf.input.Redfish[1].Hosts # <<>>
    /\ conf.input.MCP[1].Transport = MCPTransportStreamableHTTP
    /\ conf.input.MCP[1].LogLevel = <<"w", "A", "r", "N", "i", "N", "g">>

\* numbers the environment writes in decimal
EnvNumbers == {0, 60, 3601, 8443, 70000}

\* the number a decimal text of the environment writes, within lo..hi
WritesNumber(text, n, lo, hi) == n \in lo..hi /\ Decimal(n) = text

\* an environment every variable of which holds an admissible value or none
EnvironmentValid(e) ==
    /\ e.REDFISH_HOSTS.set =>
          /\ e.REDFISH_HOSTS.wellFormed
          /\ \A i \in DOMAIN e.REDFISH_HOSTS.hosts :
                LET o == e.REDFISH_HOSTS.hosts[i]
                IN /\ "address" \in DOMAIN o /\ o.address # <<>>
                   /\ "port" \in DOMAIN o => o.port \in 0..65535
                   /\ "auth_method" \in DOMAIN o => o.auth_method \in {"", "basic", "session"}
    /\ e.REDFISH_PORT # <<>> => \E n \in EnvNumbers : WritesNumber(e.REDFISH_PORT, n, 1, 65535)
    /\ e.REDFISH_AUTH_METHOD \in {"", "basic", "session"}
    /\ e.REDFISH_DISCOVERY_INTERVAL # <<>> =>
          \E n \in EnvNumbers : WritesNumber(e.REDFISH_DISCOVERY_INTERVAL, n, 1, 3600)
    /\ e.MCP_TRANSPORT \in {"", "stdio", "sse", "streamable-http"}
    /\ e.MCP_REDFISH_LOG_LEVEL # <<>> =>
          \E l \in validLogLevels : EqualFold(e.MCP_REDFISH_LOG_LEVEL, l)

\* C22: with REDFISH_CONFIG_FILE unset and a valid environment, LoadFromEnv
\* returns a configuration whose hosts are the entries of the REDFISH_HOSTS
\* array, in order, each with its address and port, and whose port, auth
\* method, transport and discovery interval are the values of the environment,
\* or 443, session, stdio and 30 where the variable is unset
C22_LoadFromEnvKeepsEnvironment ==
    (conf.pc = "loaded" /\ env.REDFISH_CONFIG_FILE = "" /\ EnvironmentValid(env)) =>
        LET c == conf.loaded.config
        IN /\ ~conf.loaded.err
           /\ env.REDFISH_HOSTS.set =>
                 /\ Len(c.Redfish.Hosts) = Len(env.REDFISH_HOSTS.hosts)
                 /\ \A i \in DOMAIN env.REDFISH_HOSTS.hosts :
                       LET o == env.REDFISH_HOSTS.hosts[i]
                       IN /\ c.Redfish.Hosts[i].Address = o.address
                          /\ c.Redfish.Hosts[i].Port = (IF "port" \in DOMAIN o THEN o.port ELSE 0)
           /\ IF env.REDFISH_PORT = <<>> THEN c.Redfish.Port = 443
              ELSE Decimal(c.Redfish.Port) = env.REDFISH_PORT
           /\ IF env.REDFISH_AUTH_METHOD = "" THEN c.Redfish.AuthMethod = "session"
              ELSE c.Redfish.AuthMethod = env.REDFISH_AUTH_METHOD
           /\ IF env.MCP_TRANSPORT = "" THEN c.MCP.Transport = "stdio"
              ELSE c.MCP.Transport = env.MCP_TRANSPORT
           /\ IF env.REDFISH_DISCOVERY_INTERVAL = <<>> THEN c.Redfish.DiscoveryInterval = 30
              ELSE Decimal(c.Redfish.DiscoveryInterval) = env.REDFISH_DISCOVERY_INTERVAL

C22_Witness ==
    /\ conf.pc = "loaded"
    /\ env.REDFISH_CONFIG_FILE = ""
    /\ ~conf.loaded.err
    /\ env.REDFISH_HOSTS.set
    /\ Len(conf.loaded.config.Redfish.Hosts) = 2
    /\ conf.loaded.config.Redfish.Hosts[1] = HostB
    /\ conf.loaded.config.Redfish.Hosts[2].Port = 8443
    /\ env.REDFISH_PORT # <<>>
    /\ conf.loaded.config.Redfish.Port = 8443
    /\ conf.loaded.config.Redfish.AuthMethod = AuthMethodBasic
    /\ conf.loaded.config.Redfish.DiscoveryInterval = 60
    /\ conf.loaded.config.MCP.Transport = MCPTransportSSE

-----------------------------------------------------------------------------
(* Properties of the transports, checked under SpecServer *)

\* C23: for each transport that configuration validation accepts (stdio, sse,
\* streamable-http), Server.Start serves on that transport and does not fail
\* with an unsupported-transport error
C23_EveryValidTransportServes ==
    (/\ server.pc \in {"running", "exited"}
     /\ server.config.MCP.Transport \in {"stdio", "sse", "streamable-http"}) =>
        /\ server.pc = "running"
        /\ server.err # "unsupported transport"

-----------------------------------------------------------------------------
(* Properties of the responses the client returns, checked under SpecRetry *)

\* a request method has returned a response to its caller
ResponseReturned ==
    RequestFinished /\ ~ret.panicked /\ ret.err = NoErr /\ ret.resp.type = "RedfishResponse"

\* C24: every response returned without error by Get, Post, Patch, Delete or
\* GetWithHeaders has a non-null Data, for every status below 400 and every
\* response body, the empty one included
C24_BodyNeverNull ==
    ResponseReturned => ret.resp.Data # NilData

\* the allow-list in canonical spelling
AllowListed ==
    {<<"A", "l", "l", "o", "w">>,
     <<"C", "o", "n", "t", "e", "n", "t", "-", "T", "y", "p", "e">>,
     <<"C", "o", "n", "t", "e", "n", "t", "-", "E", "n", "c", "o", "d", "i", "n", "g">>,
     <<"E", "T", "a", "g">>,
     <<"L", "i", "n", "k">>}

\* the values the response carries under a name, whatever the letter case
RECURSIVE ValuesIgnoringCase(_, _)
ValuesIgnoringCase(lines, name) ==
    IF lines = <<>> THEN <<>>
    ELSE (IF EqualFold(lines[1][1], name) THEN <<lines[1][2]>> ELSE <<>>)
         \o ValuesIgnoringCase(Tail(lines), name)

\* the header lines of the response the finished request returned
AnsweredHeaders == wire[Len(wire)].reply.headers

\* C25: GetWithHeaders returns a header map that holds, under the canonical
\* names Allow, Content-Type, Content-Encoding, ETag and Link, exactly the
\* allow-listed headers the response carries in any letter case, each with
\* its values, and nothing else
C25_AllowListedHeadersReturned ==
    (ResponseReturned /\ ret.op = "GetWithHeaders") =>
        /\ DOMAIN ret.resp.Headers =
              {n \in AllowListed : ValuesIgnoringCase(AnsweredHeaders, n) # <<>>}
        /\ \A n \in DOMAIN ret.resp.Headers :
              ret.resp.Headers[n] = ValuesIgnoringCase(AnsweredHeaders, n)

\* C26: the header map of every response the client returns, from any of
\* Get, Post, Patch, Delete and GetWithHeaders, holds only allow-listed names
C26_OnlyAllowListedHeaders ==
    ResponseReturned => DOMAIN ret.resp.Headers \subseteq AllowListed

\* C27: a client request never returns a response whose status is 400 or
\* above: an attempt answered with a status of 400 or above yields a protocol
\* error with exactly that status code, a 4xx ends the request and a 5xx is
\* retried while the budget lasts, and a response is returned only for an
\* attempt answered with a status below 400
C27_NoResponseFromErrorStatus ==
    /\ ret.resp.type = "RedfishResponse" => ret.resp.StatusCode < 400
    /\ \A i \in DOMAIN wire :
          (wire[i].op \in Methods /\ wire[i].reply.kind = "http" /\ wire[i].reply.status >= 400) =>
              /\ wire[i].err.type = "RedfishError"
              /\ wire[i].err.Code = wire[i].reply.status
              /\ wire[i].reply.status < 500 => (i = Len(wire) /\ ~call.active)
              /\ (wire[i].reply.status >= 500 /\ i < client.config.MaxRetries + 1) =>
                    (call.active \/ i < Len(wire))
    /\ ResponseReturned =>
          /\ wire[Len(wire)].reply.kind = "http"
          /\ wire[Len(wire)].reply.status < 400
          /\ ret.resp.StatusCode = wire[Len(wire)].reply.status

C27_Witness ==
    /\ ResponseReturned
    /\ Len(wire) = 2
    /\ wire[1].reply.status = 500
    /\ wire[1].err = RedfishError(500, <<"HTTP", 500, BodyText>>)
    /\ ret.resp.StatusCode = 200

-----------------------------------------------------------------------------
(* Properties of basic authentication, checked under Spec *)

\* C28: for a client using basic authentication, Login makes no network
\* call, the session token is empty in every reachable state, and every HTTP
\* attempt of every request carries the basic-auth header built from the
\* configured username and password and never an X-Auth-Token header
C28_BasicCredentialsOnEveryAttempt ==
    client.config.AuthMethod = AuthMethodBasic =>
        /\ client.sessionToken = ""
        /\ ret.op = "Login" => wire = <<>>
        /\ \A i \in DOMAIN wire :
              /\ wire[i].op \in Methods
              /\ wire[i].BasicAuth.present
              /\ wire[i].BasicAuth.value = <<client.config.Username, client.config.Password>>
              /\ ~wire[i].XAuthToken.present

-----------------------------------------------------------------------------
(* Properties of the retry loop as a whole, checked under SpecRetry *)

\* C29: whatever the outcomes of the attempts of one request, the retry loop
\* stops at the first attempt that succeeds or fails with a 4xx protocol
\* error, or after attempt MaxRetries + 1, whichever comes first: a success
\* after k-1 retryable failures returns that response after exactly k
\* attempts and without error, and a 4xx after retryable failures returns the
\* 4xx error with no further attempt
C29_RetryStopsAtFirstDecision ==
    wire # <<>> =>
        LET k == Len(wire)
            last == wire[k]
        IN /\ k <= client.config.MaxRetries + 1
           /\ \A i \in 1..(k - 1) : wire[i].err # NoErr /\ ~IsClientError(wire[i].err)
           /\ call.active =>
                 /\ last.err # NoErr /\ ~IsClientError(last.err)
                 /\ k < client.config.MaxRetries + 1
           /\ ~call.active =>
                 \/ /\ last.err = NoErr
                    /\ ret.err = NoErr
                    /\ ret.resp.type = "RedfishResponse"
                    /\ ret.resp.StatusCode = last.reply.status
                 \/ /\ IsClientError(last.err)
                    /\ ret.err = last.err
                    /\ ret.resp = NoResp
                 \/ /\ last.err # NoErr /\ ~IsClientError(last.err)
                    /\ k = client.config.MaxRetries + 1
                    /\ ret.err = last.err
                    /\ ret.resp = NoResp

C29_Witness ==
    /\ ~call.active
    /\ client.config.MaxRetries = 2
    /\ Len(wire) = 2
    /\ IsServerOrNetworkError(wire[1].err)
    /\ IsClientError(wire[2].err)
    /\ ret.err = wire[2].err

-----------------------------------------------------------------------------
(* Properties of concurrent tool calls, checked under SpecConcurrent *)

\* the authentication headers a client built from this configuration and
\* issued this token sends
OwnHeaders(config, token) ==
    [XAuthToken |-> IF config.AuthMethod = "session" /\ token # ""
                    THEN [present |-> TRUE, value |-> token]
                    ELSE [present |-> FALSE, value |-> ""],
     BasicAuth |-> IF config.AuthMethod = "basic" /\ config.Username # "" /\ config.Password # ""
                   THEN [present |-> TRUE, value |-> <<config.Username, config.Password>>]
                   ELSE [present |-> FALSE, value |-> <<"", "">>]]

\* C30: in any interleaving of concurrent get_resource_data calls each call
\* uses its own client: every HTTP attempt carries only the credentials or
\* the session token of the client the same call created, and a Login,
\* Logout or Close of one call never changes the token another call uses
C30_CallsUseTheirOwnClient ==
    \A i \in Invocations :
        LET inv == invocations[i]
        IN /\ inv.sent.attempts > 0 =>
                 /\ inv.sent.XAuthToken = OwnHeaders(inv.config, inv.granted).XAuthToken
                 /\ inv.sent.BasicAuth = OwnHeaders(inv.config, inv.granted).BasicAuth
           /\ inv.pc \in {"get", "closing"} =>
                 /\ clients[clientOf(i)].config = inv.config
                 /\ clients[clientOf(i)].sessionToken = inv.granted

C30_Witness ==
    /\ invocations["i1"].pc = "get"
    /\ invocations["i1"].sent.attempts = 2
    /\ invocations["i1"].sent.XAuthToken.value = "tokH"
    /\ invocations["i2"].pc = "get"
    /\ invocations["i2"].sent.attempts = 1
    /\ invocations["i2"].sent.XAuthToken.value = "tokB"
    /\ invocations["i2"].serverAddr = invocations["i1"].serverAddr

-----------------------------------------------------------------------------
(* Order of the steps of get_resource_data, checked under SpecHandler *)

\* a request has just been put on the wire
RequestSent == wire' # wire /\ wire' # <<>>

\* C31: get_resource_data resolves the host, constructs the client, logs in,
\* calls GetWithHeaders once and closes the client, in this order: nothing is
\* sent to a device for an address the registry does not hold, and no
\* resource GET is sent when Login fails
C31_StepsInOrder ==
    [][/\ RequestSent => (handler.created /\ handler.pc \in {"login", "getting"})
       /\ (~handler'.created /\ handler'.pc = "returned") => ~RequestSent
       /\ (RequestSent /\ wire'[Len(wire')].op # "Login") =>
             (handler.pc = "getting" /\ wire'[Len(wire')].op = "GetWithHeaders")
       /\ (handler'.pc = "login" /\ handler.pc # "login") =>
             (handler.pc \in {"idle", "returned"} /\ handler'.created /\ ~RequestSent)
       /\ (handler'.pc = "get" /\ handler.pc # "get") =>
             (handler.pc = "login" /\ ret'.op = "Login" /\ ret'.err = NoErr)
       /\ (handler.pc = "login" /\ handler'.pc # "login" /\ ret'.err # NoErr) =>
             handler'.pc = "returned"
       /\ (handler'.pc = "getting" /\ handler.pc # "getting") => handler.pc = "get"
       /\ (handler.pc = "getting" /\ handler'.pc # "getting") =>
             (handler'.pc = "returned" /\ handler'.closed /\ ret'.op = "Close")
       /\ (handler'.closed /\ ~handler.closed) => handler.pc = "getting"
      ]_vars

\* a call whose login was refused has returned: the login POST is the only
\* request it sent
C31_Witness ==
    /\ handler.pc = "returned"
    /\ handler.created
    /\ ret.op = "Login"
    /\ ret.err # NoErr
    /\ Len(wire) = 1
    /\ wire[1].op = "Login"

-----------------------------------------------------------------------------
(* The resource URL of get_resource_data, checked under SpecHandler *)

Ports == {<<"4">>}
Paths == {<<"/", "r">>}

\* https://server:port/path
DocumentedURL(addr, port, path) == HTTPSPrefix \o addr \o <<":">> \o port \o path

\* C32: for a URL https://server:port/path whose server is the address of a
\* registered host, get_resource_data looks the host up by the server without
\* the port, builds the client for that host and requests the given path
C32_DocumentedURLResolves ==
    \A addr \in Addresses, port \in Ports, path \in Paths :
        (/\ handler.pc # "idle"
         /\ handler.url = DocumentedURL(addr, port, path)
         /\ addr \in KnownAddresses)
        => /\ handler.serverAddr = addr
           /\ handler.resourcePath = path
           /\ handler.created
           /\ client.config.Address = addr

-----------------------------------------------------------------------------
(* What a request returns, checked under SpecRetry *)

\* Post or Patch returned before request was entered
MarshalFailed == ret.err = PlainError(<<"failed to marshal request data", 0, "">>)

\* a call of a request method that entered Client.request has ended
RequestEnded == ret.op \in Methods /\ ~call.active /\ ~MarshalFailed

\* C33: for every ClientConfig, MaxRetries <= 0 included, a request returns
\* either a response and no error or no response and an error, never
\* neither, and makes at least one HTTP attempt before it returns
C33_ResponseOrErrorAfterAttempt ==
    RequestEnded =>
        /\ ~ret.panicked
        /\ \/ ret.resp # NoResp /\ ret.err = NoErr
           \/ ret.resp = NoResp /\ ret.err # NoErr
        /\ Len(wire) >= 1

-----------------------------------------------------------------------------
(* The token of a session, checked under Spec *)

\* C34: whenever a session Login returns without error the client's session
\* token is non-empty, so the requests that follow carry X-Auth-Token; also
\* when the token was taken from the response body
C34_LoginYieldsNonEmptyToken ==
    (IsSessionClient /\ ret.op = "Login" /\ ret.err = NoErr) =>
        /\ client.sessionToken # ""
        /\ addAuthHeaders(client).XAuthToken = Header(client.sessionToken)

\* C35: a session Login sends exactly one HTTP request and is not retried: a
\* network error or a 5xx status on the login request makes Login fail at
\* once, with no second request and no backoff sleep
C35_LoginSendsOneRequest ==
    (IsSessionClient /\ ret.op = "Login") =>
        /\ Len(wire) = 1
        /\ wire[1].op = "Login"
        /\ slept = <<>>
        /\ ~call.active
        /\ (wire[1].reply.kind = "neterr" \/ wire[1].reply.status >= 500) =>
              (ret.err # NoErr /\ ret.err = wire[1].err)

C35_Witness ==
    /\ IsSessionClient
    /\ ret.op = "Login"
    /\ Len(wire) = 1
    /\ wire[1].reply.status = 500
    /\ ret.err.Code = 500
    /\ slept = <<>>

-----------------------------------------------------------------------------
(* The back-off delays, checked under SpecBackoff *)

\* InitialDelay * 2^(n-1), n the number of the retry (1, 2, ...)
Doubled(config, n) == config.InitialDelay * Pow2(n - 1)

\* the same with a non-positive InitialDelay read as the smallest duration
DoubledFromSeed(config, n) ==
    (IF config.InitialDelay <= 0 THEN 1 ELSE config.InitialDelay) * Pow2(n - 1)

\* the value is a time.Duration
FitsDuration(x) == x < Pow2(DurationBits - 1)

\* the request has returned after at least one attempt
SleepsComplete == ret.op \in Methods /\ ~call.active /\ wire # <<>>

\* C36 as stated: the delay before retry n is min(InitialDelay * 2^(n-1),
\* MaxDelay) for every InitialDelay and MaxDelay, whatever BackoffFactor and
\* Jitter are, and nothing is slept after the final attempt
C36_DelayIsMinOfDoubledAndMax ==
    /\ \A n \in DOMAIN slept :
          slept[n] = Min(Doubled(client.config, n), client.config.MaxDelay)
    /\ SleepsComplete => Len(slept) = Len(wire) - 1

\* C36 as amended: the delay before retry n is InitialDelay * 2^(n-1) (a
\* non-positive InitialDelay counting as 1) as long as that fits a duration,
\* cut to MaxDelay only when MaxDelay > 0; it is fixed by InitialDelay and
\* MaxDelay alone, whatever BackoffFactor and Jitter are, and nothing is
\* slept after the final attempt
C36_DelayIsDoubledCutToPositiveMax ==
    /\ \A n \in DOMAIN slept :
          FitsDuration(DoubledFromSeed(client.config, n)) =>
             slept[n] = IF client.config.MaxDelay > 0
                        THEN Min(DoubledFromSeed(client.config, n), client.config.MaxDelay)
                        ELSE DoubledFromSeed(client.config, n)
    /\ SleepsComplete => Len(slept) = Len(wire) - 1

C36_Witness ==
    /\ SleepsComplete
    /\ client.config.Jitter
    /\ client.config.BackoffFactor = 3
    /\ Len(wire) = 3
    /\ slept = <<2, 3>>

-----------------------------------------------------------------------------
(* Responses with several AL headers, checked under SpecTwoHeaders *)

IsALName(header) == ToLowerString(header) = HeaderLowerAL

\* the header lines of a response after the ST line, as name and value
HeaderLinesOf(r) ==
    (IF r.header = <<>> THEN <<>> ELSE <<[header |-> r.header, value |-> RenderURI(r)]>>)
        \o [i \in DOMAIN r.second |-> [header |-> r.second[i].header, value |-> r.second[i].value]]

\* the value of the first AL header with a value, <<>> without one
FirstALValue(r) ==
    LET lines == HeaderLinesOf(r)
        al == {i \in DOMAIN lines : IsALName(lines[i].header) /\ lines[i].value # <<>>}
    IN IF al = {} THEN <<>> ELSE lines[CHOOSE i \in al : \A j \in al : i <= j].value

\* one entry per datagram whose first AL value is a valid service root
HostsByFirstAL(reads) ==
    LET q == SelectSeq(reads, LAMBDA o : /\ o.kind = "datagram"
                                         /\ FirstALValue(o.sent) # <<>>
                                         /\ isValidServiceRoot(FirstALValue(o.sent)))
    IN [i \in DOMAIN q |-> DiscoveredHost(q[i].sent.dotted, FirstALValue(q[i].sent))]

\* C37: parseAL returns the value of the first line of the response that is
\* an AL header, whatever the case of its name and wherever the line is, and
\* Discover validates only that value: a response whose first AL header is
\* invalid gives no entry even when a later AL header of it is valid
C37_FirstALHeaderDecides ==
    /\ \A r \in {disc.reads[i].sent : i \in {j \in DOMAIN disc.reads : disc.reads[j].kind = "datagram"}} :
          parseAL(Render(r)) = FirstALValue(r)
    /\ disc.hosts = HostsByFirstAL(disc.reads)

C37_Witness ==
    /\ DiscoverReturnedAfterSend
    /\ Len(disc.reads) = 2
    /\ disc.reads[1].sent = InvalidThenValid
    /\ disc.reads[2].sent = ValidThenInvalid
    /\ disc.hosts = <<DiscoveredHost(SenderB.dotted, ValidURI)>>

-----------------------------------------------------------------------------
(* Construction of the registry, checked under SpecServer *)

\* the static list the environment calls for
StaticListOf(e) ==
    IF ~e.REDFISH_HOSTS.set \/ ~e.REDFISH_HOSTS.wellFormed
    THEN <<HostConfig(Loopback, 0, "", "", "", "")>>
    ELSE [i \in DOMAIN e.REDFISH_HOSTS.hosts |-> UnmarshalHost(e.REDFISH_HOSTS.hosts[i])]

\* C38: constructing the registry never fails: with REDFISH_HOSTS unset,
\* empty or not parseable as a JSON array of hosts the static list is the
\* single default host 127.0.0.1, otherwise it is the parsed array
C38_RegistryConstructionNeverFails ==
    [][(server.pc = "loaded" /\ server'.pc # "loaded") =>
          /\ server'.pc = "created"
          /\ server'.err = ""
          /\ staticHosts' = StaticListOf(env)
          /\ discoveredHosts' = <<>>]_vars

C38_Witness ==
    /\ server.pc = "created"
    /\ env.REDFISH_HOSTS.set
    /\ ~env.REDFISH_HOSTS.wellFormed
    /\ staticHosts = <<BareHost(Loopback)>>

-----------------------------------------------------------------------------
(* Response bodies that are not JSON, checked under SpecRetry *)

\* attempt i was answered with a status below 400 and a non-empty body that
\* does not decode as JSON
AnsweredWithRawText(i) ==
    /\ wire[i].op \in Methods
    /\ wire[i].reply.kind = "http"
    /\ wire[i].reply.status < 400
    /\ wire[i].reply.body # BodyEmpty
    /\ ~IsValidJSON(wire[i].reply.body)

\* C39: an attempt answered with a status below 400 and a non-empty body that
\* is not valid JSON succeeds with the raw body text as Data: the malformed
\* body gives neither an error nor a retry
C39_RawBodyOnDecodeFailure ==
    \A i \in DOMAIN wire :
        AnsweredWithRawText(i) =>
            /\ wire[i].err = NoErr
            /\ i = Len(wire)
            /\ Len(slept) = i - 1
            /\ ~call.active
            /\ ret.err = NoErr
            /\ ret.resp.StatusCode = wire[i].reply.status
            /\ ret.resp.Data = StringData(wire[i].reply.body)

C39_Witness ==
    /\ ret.op = "Get"
    /\ Len(wire) = 2
    /\ wire[1].err.Code = 500
    /\ AnsweredWithRawText(2)
    /\ ret.resp.Data = StringData(BodyText)

====
